---- MODULE Spec2Model ----
(***************************************************************************)
(* A model of the pddl-parser front end: the lexer (lexer.rs), the token   *)
(* cursor, the nom combinators the grammar is built from, the grammar of   *)
(* domains, problems, plans and expressions, and the to_pddl printers.     *)
(*                                                                         *)
(* A text is a sequence of whitespace-separated words.  The lexer maps     *)
(* each word to the token logos produces for it; a printer yields the      *)
(* words of the string the Rust code formats.                              *)
(***************************************************************************)
EXTENDS Integers, Sequences, FiniteSets, TLC

VARIABLES kind, input, pc, parsed, text, reparsed, retext

vars == <<kind, input, pc, parsed, text, reparsed, retext>>

(***************************************************************************)
(* Lexer: lexer.rs                                                         *)
(***************************************************************************)

\* Words matched by the Id regex [a-zA-Z][a-zA-Z0-9_\-]* and by no keyword.
IdWords == {"d", "a", "b", "t", "u", "p", "q", "k", "f", "m", "object", "at-robot"}

\* Words matched by the Var regex \?[a-zA-Z][a-zA-Z0-9_\-]*.
VarWords == {"?x", "?y", "?duration"}

\* Words matched by the Integer regex -?[0-9]+ whose value fits an i64.
IntWords == {"0", "1", "5", "-1", "007"}

\* Words matched by the Float regex [0-9]+\.[0-9]+.
FloatWords == {"0.000", "0.5", "1.5", "100.000"}

\* Words the lexer skips: line comments and package directives.
SkipWords == {";c", "(in-package)"}

\* str::parse::<i64> on the words of IntWords.
IntValue(w) ==
  CASE w = "0" -> 0
    [] w = "1" -> 1
    [] w = "5" -> 5
    [] w = "-1" -> -1
    [] w = "007" -> 7
    [] OTHER -> 0

\* i64::to_string on the values IntValue yields.
IntToString(n) ==
  CASE n = 0 -> "0"
    [] n = 1 -> "1"
    [] n = 5 -> "5"
    [] n = -1 -> "-1"
    [] n = 7 -> "7"
    [] OTHER -> "0"

\* str::parse::<f64> on the words of FloatWords, in thousandths.
FloatValue(w) ==
  CASE w = "0.000" -> 0
    [] w = "0.5" -> 500
    [] w = "1.5" -> 1500
    [] w = "100.000" -> 100000
    [] OTHER -> 0

\* ignore(ascii_case): the lower-case spelling of a word.
AsciiLower(w) ==
  CASE w = "AT" -> "at"
    [] w = "End" -> "end"
    [] w = "DEFINE" -> "define"
    [] w = ":STRIPS" -> ":strips"
    [] w = ":Typing" -> ":typing"
    [] OTHER -> w

\* The #[token] table of Token: the variant of a punctuation or keyword word.
KeywordToken(w) ==
  CASE w = ":" -> "Colon"
    [] w = "[" -> "OpenBracket"
    [] w = "]" -> "CloseBracket"
    [] w = "(" -> "OpenParen"
    [] w = ")" -> "CloseParen"
    [] w = "define" -> "Define"
    [] w = "problem" -> "Problem"
    [] w = ":objects" -> "Objects"
    [] w = "domain" -> "Domain"
    [] w = ":domain" -> "ProblemDomain"
    [] w = ":requirements" -> "Requirements"
    [] w = ":types" -> "Types"
    [] w = ":constants" -> "Constants"
    [] w = ":predicates" -> "Predicates"
    [] w = ":functions" -> "Functions"
    [] w = ":action" -> "Action"
    [] w = ":durative-action" -> "DurativeAction"
    [] w = ":parameters" -> "Parameters"
    [] w = ":duration" -> "Duration"
    [] w = ":precondition" -> "Precondition"
    [] w = ":condition" -> "Condition"
    [] w = ":effect" -> "Effect"
    [] w = ":init" -> "Init"
    [] w = ":goal" -> "Goal"
    [] w = "and" -> "And"
    [] w = "not" -> "Not"
    [] w = "either" -> "Either"
    [] w = "assign" -> "Assign"
    [] w = "scale-up" -> "ScaleUp"
    [] w = "scale-down" -> "ScaleDown"
    [] w = "increase" -> "Increase"
    [] w = "decrease" -> "Decrease"
    [] w = "forall" -> "Forall"
    [] w = "at" -> "At"
    [] w = "over" -> "Over"
    [] w = "all" -> "All"
    [] w = "start" -> "Start"
    [] w = "end" -> "End"
    [] w = "+" -> "Plus"
    [] w = "*" -> "Times"
    [] w = "/" -> "Divide"
    [] w = "=" -> "Equal"
    [] w = "-" -> "Dash"
    [] w = ":strips" -> "Strips"
    [] w = ":typing" -> "Typing"
    [] w = ":disjunctive-preconditions" -> "DisjunctivePreconditions"
    [] w = ":equality" -> "Equality"
    [] w = ":existential-preconditions" -> "ExistentialPreconditions"
    [] w = ":universal-preconditions" -> "UniversalPreconditions"
    [] w = ":quantified-preconditions" -> "QuantifiedPreconditions"
    [] w = ":conditional-effects" -> "ConditionalEffects"
    [] w = ":action-expansions" -> "ActionExpansions"
    [] w = ":foreach-expansions" -> "ForeachExpansions"
    [] w = ":dag-expansions" -> "DagExpansions"
    [] w = ":domain-axioms" -> "DomainAxioms"
    [] w = ":subgoals-through-axioms" -> "SubgoalsThroughAxioms"
    [] w = ":safety-constraints" -> "SafetyConstraints"
    [] w = ":expression-evaluation" -> "ExpressionEvaluation"
    [] w = ":fluents" -> "Fluents"
    [] w = ":open-world" -> "OpenWorld"
    [] w = ":true-negation" -> "TrueNegation"
    [] w = ":adl" -> "Adl"
    [] w = ":ucpop" -> "Ucpop"
    [] w = ":numeric-fluents" -> "NumericFluents"
    [] w = ":durative-actions" -> "DurativeActions"
    [] w = ":durative-inequalities" -> "DurativeInequalities"
    [] w = ":duration-inequalities" -> "DurativeInequalities"
    [] w = ":continuous-effects" -> "ContinuousEffects"
    [] w = ":negative-preconditions" -> "NegativePreconditions"
    [] w = ":derived-predicates" -> "DerivedPredicates"
    [] w = ":timed-initial-literals" -> "TimedInitialLiterals"
    [] w = ":preferences" -> "Preferences"
    [] w = ":constraints" -> "Constraints"
    [] w = ":action-costs" -> "ActionCosts"
    [] w = ":goal-utilities" -> "GoalUtilities"
    [] w = ":time" -> "Time"
    [] OTHER -> "None"

\* The token logos yields for one word: k is the variant ("Error" for the
\* Err item of an unrecognized character or a failed callback), s the slice,
\* n the value of a number.
Token(w) ==
  LET kw == KeywordToken(IF w \in {"(", ")", ":", "[", "]", "+", "*", "/", "=", "-"}
                         THEN w ELSE AsciiLower(w)) IN
  IF kw # "None" THEN [k |-> kw, s |-> w, n |-> 0]
  ELSE IF w \in IdWords THEN [k |-> "Id", s |-> w, n |-> 0]
  ELSE IF w \in VarWords THEN [k |-> "Var", s |-> w, n |-> 0]
  ELSE IF w \in IntWords THEN [k |-> "Integer", s |-> w, n |-> IntValue(w)]
  ELSE IF w \in FloatWords THEN [k |-> "Float", s |-> w, n |-> FloatValue(w)]
  ELSE [k |-> "Error", s |-> w, n |-> 0]

\* The byte offset at which each word of a text starts, the words being one
\* separator byte apart.
RECURSIVE WordStarts(_, _)
WordStarts(words, acc) ==
  IF Len(acc) = Len(words) THEN acc
  ELSE WordStarts(words,
                  Append(acc, IF acc = <<>> THEN 0
                              ELSE acc[Len(acc)] + Len(words[Len(acc)]) + 1))

\* The item the lexer makes of the word w that starts at byte lo: its token
\* with the byte range lo..hi, or nothing ("Skip") for a skipped word.
Lexed(w, lo) ==
  LET t == Token(w) IN
  [k |-> IF w \in SkipWords THEN "Skip" ELSE t.k, s |-> t.s, n |-> t.n,
   lo |-> lo, hi |-> lo + Len(w)]

\* TokenStream::new followed by the items of lexer.spanned(): the tokens of
\* a text, skipped words dropped, each with its byte range in the source.
TokenStream_new(words) ==
  LET start == WordStarts(words, <<>>) IN
  SelectSeq([p \in 1..Len(words) |-> Lexed(words[p], start[p])],
            LAMBDA t : t.k # "Skip")

\* A cursor is an index i into the token sequence: the tokens before i have
\* been consumed by advance().
TokenStream_count(toks, i) == Len(toks) + 1 - i

TokenStream_is_empty(toks, i) == TokenStream_count(toks, i) = 0

\* TokenStream::peek: <<>> for None, <<token>> for Some.
TokenStream_peek(toks, i) == IF i <= Len(toks) THEN <<toks[i]>> ELSE <<>>

\* An advance() that moves on whether or not a token is left.
TokenStream_advance_unchecked(toks, i) == i + 1

TokenStream_advance(toks, i) == IF i <= Len(toks) THEN i + 1 ELSE i

\* TokenStream::span: lexer.span(), the byte range of the token the lexer
\* returned last, which is the token before the cursor; 0..0 on a new stream.
TokenStream_span(toks, i) ==
  IF i = 1 THEN <<0, 0>> ELSE <<toks[i - 1].lo, toks[i - 1].hi>>

\* A lookahead without limit: every remaining token.
TokenStream_peek_all(toks, i, n) ==
  IF Len(toks) < i THEN <<>> ELSE <<SubSeq(toks, i, Len(toks))>>

\* TokenStream::peek_n: <<>> for None, <<items>> for Some; an item is the
\* pair (token or lexer error, slice), here the token record itself.
TokenStream_peek_n(toks, i, n) ==
  LET last == IF i + n - 1 <= Len(toks) THEN i + n - 1 ELSE Len(toks) IN
  IF n > 0 /\ last < i THEN <<>> ELSE <<SubSeq(toks, i, last)>>

\* The length of a text in bytes, its words one separator byte apart.
SourceLen(words) ==
  IF words = <<>> THEN 0
  ELSE WordStarts(words, <<>>)[Len(words)] + Len(words[Len(words)])

\* TokenStream::len after n calls of advance() on a new stream with cursor
\* i: the bytes after lexer.span().end.  The lexer's span ends where the
\* token returned last ends and, once the lexer has returned None, at the
\* end of the source.
TokenStream_len(words, toks, i, n) ==
  SourceLen(words) - (IF n > Len(toks) THEN SourceLen(words)
                      ELSE TokenStream_span(toks, i)[2])

(***************************************************************************)
(* Results and errors: error.rs                                            *)
(***************************************************************************)

Ok(i, v) == [ok |-> TRUE, i |-> i, val |-> v]

\* nom::Err::Error(e)
Fail(e) == [ok |-> FALSE, err |-> e]

\* ParserError values: arg is the expected token or the requirement, at the
\* cursor position of the failure.
ParserError(k, arg, at) ==
  [kind |-> k, arg |-> arg, at |-> at, span |-> <<0, 0>>, next |-> <<>>]

\* The number of tokens of lookahead an ExpectedToken error carries.
LookaheadLimit == 30

\* ParserError::ExpectedToken(token, input.span(), input.peek_n(30)), built
\* at cursor i.
ExpectedToken(k, toks, i) ==
  [kind |-> "ExpectedToken", arg |-> k, at |-> i,
   span |-> TokenStream_span(toks, i),
   next |-> TokenStream_peek_n(toks, i, LookaheadLimit)]

ExpectedIdentifier == ParserError("ExpectedIdentifier", "", 0)
ExpectedFloat == ParserError("ExpectedFloat", "", 0)
ExpectedInteger == ParserError("ExpectedInteger", "", 0)
ExpectedEndOfInput == ParserError("ExpectedEndOfInput", "", 0)

\* ParseError::from_error_kind
from_error_kind(errkind) == ParserError("ParseError", errkind, 0)

(***************************************************************************)
(* Token primitives: lexer.rs (nom::Parser for Token) and tokens.rs        *)
(***************************************************************************)

tok(k, toks, i) ==
  LET p == TokenStream_peek(toks, i) IN
  IF p # <<>> /\ p[1].k = k
  THEN Ok(TokenStream_advance(toks, i), p[1].s)
  ELSE Fail(ExpectedToken(k, toks, i))

\* An identifier that may be spelled like a keyword.
id_or_keyword(toks, i) ==
  LET p == TokenStream_peek(toks, i) IN
  IF p # <<>> /\ p[1].k \in {"Id", "At", "End", "Start", "All", "Over", "Domain",
                             "Problem", "And", "Not"}
  THEN Ok(TokenStream_advance(toks, i), p[1].s)
  ELSE Fail(ExpectedIdentifier)

id(toks, i) ==
  LET p == TokenStream_peek(toks, i) IN
  IF p # <<>> /\ p[1].k = "Id"
  THEN Ok(TokenStream_advance(toks, i), p[1].s)
  ELSE Fail(ExpectedIdentifier)

var(toks, i) ==
  LET p == TokenStream_peek(toks, i) IN
  IF p # <<>> /\ p[1].k = "Var"
  THEN Ok(TokenStream_advance(toks, i), p[1].s)
  ELSE Fail(ExpectedIdentifier)

float(toks, i) ==
  LET p == TokenStream_peek(toks, i) IN
  IF p # <<>> /\ p[1].k = "Float"
  THEN Ok(TokenStream_advance(toks, i), p[1].n)
  ELSE Fail(ExpectedFloat)

integer(toks, i) ==
  LET p == TokenStream_peek(toks, i) IN
  IF p # <<>> /\ p[1].k = "Integer"
  THEN Ok(TokenStream_advance(toks, i), p[1].n)
  ELSE Fail(ExpectedInteger)

(***************************************************************************)
(* Combinators: nom 7 (many0, many1, opt, pair, preceded, delimited)       *)
(***************************************************************************)

\* many0: stops at the first Error; a success that consumed nothing is the
\* Many0 error of the no-progress guard.
RECURSIVE many0(_, _, _)
many0(P(_, _), toks, i) ==
  LET r == P(toks, i) IN
  IF ~r.ok THEN Ok(i, <<>>)
  ELSE IF r.i = i THEN Fail(from_error_kind("Many0"))
  ELSE LET rest == many0(P, toks, r.i) IN
       IF rest.ok THEN Ok(rest.i, <<r.val>> \o rest.val) ELSE rest

\* many1: the first attempt must succeed (its error is returned, append
\* keeps the inner error); then as many0.
many1(P(_, _), toks, i) ==
  LET r == P(toks, i) IN
  IF ~r.ok THEN r
  ELSE LET rest == many0(P, toks, r.i) IN
       IF rest.ok THEN Ok(rest.i, <<r.val>> \o rest.val)
       ELSE Fail(from_error_kind("Many1"))

\* opt: Some as <<v>>, None as <<>>.
opt(P(_, _), toks, i) ==
  LET r == P(toks, i) IN
  IF r.ok THEN Ok(r.i, <<r.val>>) ELSE Ok(i, <<>>)

pair(P(_, _), Q(_, _), toks, i) ==
  LET a == P(toks, i) IN
  IF ~a.ok THEN a
  ELSE LET b == Q(toks, a.i) IN
       IF ~b.ok THEN b ELSE Ok(b.i, <<a.val, b.val>>)

\* preceded(Token::k, P)
preceded(k, P(_, _), toks, i) ==
  LET a == tok(k, toks, i) IN
  IF ~a.ok THEN a ELSE P(toks, a.i)

\* delimited(Token::o, P, Token::c)
delimited(o, P(_, _), c, toks, i) ==
  LET a == tok(o, toks, i) IN
  IF ~a.ok THEN a
  ELSE LET b == P(toks, a.i) IN
       IF ~b.ok THEN b
       ELSE LET e == tok(c, toks, b.i) IN
            IF ~e.ok THEN e ELSE Ok(e.i, b.val)

\* delimited(Token::OpenParen, preceded(Token::k, P), Token::CloseParen)
block(k, P(_, _), toks, i) ==
  delimited("OpenParen", LAMBDA t, j: preceded(k, P, t, j), "CloseParen", toks, i)

\* delimited(Token::OpenParen, preceded(Token::k, many0(P)), Token::CloseParen)
list_block(k, P(_, _), toks, i) == block(k, LAMBDA t, j: many0(P, t, j), toks, i)

(***************************************************************************)
(* Requirements: domain/requirement.rs                                     *)
(***************************************************************************)

\* The Requirement enum; each value is named as its token.
Requirement ==
  {"Strips", "Typing", "DisjunctivePreconditions", "Equality",
   "ExistentialPreconditions", "UniversalPreconditions",
   "QuantifiedPreconditions", "ConditionalEffects", "ActionExpansions",
   "ForeachExpansions", "DagExpansions", "DomainAxioms",
   "SubgoalsThroughAxioms", "SafetyConstraints", "ExpressionEvaluation",
   "Fluents", "OpenWorld", "TrueNegation", "Adl", "Ucpop", "NumericFluents",
   "DurativeActions", "DurativeInequalities", "ContinuousEffects",
   "NegativePreconditions", "DerivedPredicates", "TimedInitialLiterals",
   "Preferences", "Constraints", "ActionCosts", "GoalUtilities", "Time"}

\* The requirements parse_requirements lets through.
SupportedRequirements == {"Strips", "Typing"}

\* alt over one map(Token::R, |_| Requirement::R) per requirement; the last
\* listed branch is Token::Time, whose error the alt returns.
Requirement_parse_requirement(toks, i) ==
  LET p == TokenStream_peek(toks, i) IN
  IF p # <<>> /\ p[1].k \in Requirement
  THEN Ok(TokenStream_advance(toks, i), p[1].k)
  ELSE Fail(ExpectedToken("Time", toks, i))

requirements_block(toks, i) ==
  list_block("Requirements", Requirement_parse_requirement, toks, i)

\* The loop run to its end: the last requirement outside the supported
\* subset wins.
RECURSIVE LastUnsupported(_)
LastUnsupported(reqs) ==
  IF reqs = <<>> THEN <<>>
  ELSE LET later == LastUnsupported(Tail(reqs)) IN
       IF later # <<>> THEN later
       ELSE IF Head(reqs) \notin SupportedRequirements THEN <<Head(reqs)>> ELSE <<>>

\* The loop of parse_requirements: the first requirement outside the
\* supported subset, <<>> when there is none.
RECURSIVE FirstUnsupported(_)
FirstUnsupported(reqs) ==
  IF reqs = <<>> THEN <<>>
  ELSE IF Head(reqs) \notin SupportedRequirements THEN <<Head(reqs)>>
  ELSE FirstUnsupported(Tail(reqs))

\* The requirements block without opt: its own error is returned.
Requirement_parse_requirements_unmasked(toks, i) ==
  LET r == requirements_block(toks, i) IN
  IF ~r.ok THEN r
  ELSE LET bad == FirstUnsupported(r.val) IN
       IF bad # <<>> THEN Fail(ParserError("UnsupportedRequirement", bad[1], 0))
       ELSE Ok(r.i, r.val)

Requirement_parse_requirements(toks, i) ==
  LET r == opt(requirements_block, toks, i) IN
  LET bad == IF r.val = <<>> THEN <<>> ELSE FirstUnsupported(r.val[1]) IN
  IF bad # <<>> THEN Fail(ParserError("UnsupportedRequirement", bad[1], 0))
  ELSE Ok(r.i, IF r.val = <<>> THEN <<>> ELSE r.val[1])

Requirement_to_pddl(r) ==
  CASE r = "Strips" -> ":strips"
    [] r = "Typing" -> ":typing"
    [] r = "DisjunctivePreconditions" -> ":disjunctive-preconditions"
    [] r = "Equality" -> ":equality"
    [] r = "ExistentialPreconditions" -> ":existential-preconditions"
    [] r = "UniversalPreconditions" -> ":universal-preconditions"
    [] r = "QuantifiedPreconditions" -> ":quantified-preconditions"
    [] r = "ConditionalEffects" -> ":conditional-effects"
    [] r = "ActionExpansions" -> ":action-expansions"
    [] r = "ForeachExpansions" -> ":foreach-expansions"
    [] r = "DagExpansions" -> ":dag-expansions"
    [] r = "DomainAxioms" -> ":domain-axioms"
    [] r = "SubgoalsThroughAxioms" -> ":subgoals-through-axioms"
    [] r = "SafetyConstraints" -> ":safety-constraints"
    [] r = "ExpressionEvaluation" -> ":expression-evaluation"
    [] r = "Fluents" -> ":fluents"
    [] r = "OpenWorld" -> ":open-world"
    [] r = "TrueNegation" -> ":true-negation"
    [] r = "Adl" -> ":adl"
    [] r = "Ucpop" -> ":ucpop"
    [] r = "NumericFluents" -> ":numeric-fluents"
    [] r = "DurativeActions" -> ":durative-actions"
    [] r = "DurativeInequalities" -> ":durative-inequalities"
    [] r = "ContinuousEffects" -> ":continuous-effects"
    [] r = "NegativePreconditions" -> ":negative-preconditions"
    [] r = "DerivedPredicates" -> ":derived-predicates"
    [] r = "TimedInitialLiterals" -> ":timed-initial-literals"
    [] r = "Preferences" -> ":preferences"
    [] r = "Constraints" -> ":constraints"
    [] r = "ActionCosts" -> ":action-costs"
    [] r = "GoalUtilities" -> ":goal-utilities"
    [] OTHER -> ":time"

(***************************************************************************)
(* Types: domain/typing.rs, domain/typedef.rs                              *)
(***************************************************************************)

\* Type::Simple(s) and Type::Either(v)
Simple(s) == [tag |-> "Simple", names |-> <<s>>]
Either(v) == [tag |-> "Either", names |-> v]

\* A default that names no type.
Type_default_empty == [tag |-> "Simple", names |-> <<"">>]

\* Default for Type
Type_default == Simple("object")

\* An either form read with many0: the list of names may be empty.
Type_parse_type_empty_either(toks, i) ==
  LET a == id(toks, i) IN
  IF a.ok THEN Ok(a.i, Simple(a.val))
  ELSE LET b == block("Either", LAMBDA t, j: many0(id, t, j), toks, i) IN
       IF b.ok THEN Ok(b.i, Either(b.val)) ELSE b

Type_parse_type(toks, i) ==
  LET a == id(toks, i) IN
  IF a.ok THEN Ok(a.i, Simple(a.val))
  ELSE LET b == block("Either", LAMBDA t, j: many1(id, t, j), toks, i) IN
       IF b.ok THEN Ok(b.i, Either(b.val)) ELSE b

Type_to_pddl(ty) ==
  IF ty.tag = "Simple" THEN <<ty.names[1]>>
  ELSE <<"(", "either">> \o ty.names \o <<")">>

\* The parent filled in with "object" when the suffix is omitted.
TypeDef_object_parent(name, parent) ==
  [name |-> name, parent |-> IF parent = <<>> THEN <<"object">> ELSE parent]

\* TypeDef { name, parent }: parent is an Option, <<>> for None.
TypeDef(name, parent) == [name |-> name, parent |-> parent]

\* flat_map of a (names, x) group: one record per name.
RECURSIVE FanOut(_, _, _)
FanOut(Mk(_, _), names, x) ==
  IF names = <<>> THEN <<>>
  ELSE <<Mk(Head(names), x)>> \o FanOut(Mk, Tail(names), x)

\* flat_map over the groups of a list.
RECURSIVE FlatMap(_, _)
FlatMap(Mk(_, _), groups) ==
  IF groups = <<>> THEN <<>>
  ELSE FanOut(Mk, Head(groups)[1], Head(groups)[2]) \o FlatMap(Mk, Tail(groups))

\* One name per group: a name does not wait for the next dash.
types_group_single(toks, i) ==
  LET r == pair(id,
                LAMBDA t, j: opt(LAMBDA t2, j2: preceded("Dash", id, t2, j2), t, j),
                toks, i) IN
  IF r.ok THEN Ok(r.i, <<<<r.val[1]>>, r.val[2]>>) ELSE r

\* pair(many1(id), opt(preceded(Token::Dash, id)))
types_group(toks, i) ==
  pair(LAMBDA t, j: many1(id, t, j),
       LAMBDA t, j: opt(LAMBDA t2, j2: preceded("Dash", id, t2, j2), t, j),
       toks, i)

Type_parse_types(toks, i) ==
  LET r == list_block("Types", types_group, toks, i) IN
  IF ~r.ok THEN r ELSE Ok(r.i, FlatMap(TypeDef, r.val))

TypeDef_to_pddl(td) ==
  IF td.parent = <<>> THEN <<td.name>> ELSE <<td.name, "-", td.parent[1]>>

(***************************************************************************)
(* Typed parameters, constants, predicates                                 *)
(***************************************************************************)

\* TypedParameter { name, type_ } with type_.unwrap_or_default()
TypedParameter(name, ty) ==
  [name |-> name, type_ |-> IF ty = <<>> THEN Type_default ELSE ty[1]]

dash_type(toks, i) == preceded("Dash", Type_parse_type, toks, i)

\* One variable per group: a type would reach only the variable next to it.
typed_parameters_single(toks, i) ==
  LET r == pair(var, LAMBDA t, j: opt(dash_type, t, j), toks, i) IN
  IF ~r.ok THEN r ELSE Ok(r.i, <<(<<r.val[1]>>), r.val[2]>>)

\* An optional type that keeps the dash it matched when the type after the
\* dash fails.
typed_parameters_group_leaky(toks, i) ==
  LET m == many1(var, toks, i) IN
  IF ~m.ok THEN m
  ELSE LET d == dash_type(toks, m.i) IN
       IF d.ok THEN Ok(d.i, <<m.val, <<d.val>>>>)
       ELSE Ok(IF tok("Dash", toks, m.i).ok THEN m.i + 1 ELSE m.i, <<m.val, <<>>>>)

\* pair(many1(var), opt(preceded(Token::Dash, Type::parse_type)))
typed_parameters_group(toks, i) ==
  pair(LAMBDA t, j: many1(var, t, j), LAMBDA t, j: opt(dash_type, t, j), toks, i)

TypedParameter_parse_typed_parameters(toks, i) ==
  LET r == many0(typed_parameters_group, toks, i) IN
  IF ~r.ok THEN r ELSE Ok(r.i, FlatMap(TypedParameter, r.val))

TypedParameter_to_pddl(tp) == <<tp.name, "-">> \o Type_to_pddl(tp.type_)

\* Constant { name, type_ }
Constant(name, ty) == [name |-> name, type_ |-> ty]

\* separated_pair(many1(id), Token::Dash, Type::parse_type)
constants_group(toks, i) ==
  pair(LAMBDA t, j: many1(id, t, j), dash_type, toks, i)

Constant_parse_constants(toks, i) ==
  LET r == list_block("Constants", constants_group, toks, i) IN
  IF ~r.ok THEN r ELSE Ok(r.i, FlatMap(Constant, r.val))

\* format!("({} - {})", name, type)
Constant_to_pddl(c) == <<"(", c.name, "-">> \o Type_to_pddl(c.type_) \o <<")">>

\* TypedPredicate { name, parameters }
TypedPredicate(p) == [name |-> p[1], parameters |-> p[2]]

RECURSIVE MapSeq(_, _)
MapSeq(F(_), s) == IF s = <<>> THEN <<>> ELSE <<F(Head(s))>> \o MapSeq(F, Tail(s))

\* iter().map(F).collect().join(sep) where every item is a sequence of words
RECURSIVE JoinMap(_, _)
JoinMap(F(_), s) == IF s = <<>> THEN <<>> ELSE F(Head(s)) \o JoinMap(F, Tail(s))

\* delimited(OpenParen, pair(id, parse_typed_parameters), CloseParen)
typed_predicate(toks, i) ==
  delimited("OpenParen",
            LAMBDA t, j: pair(id, TypedParameter_parse_typed_parameters, t, j),
            "CloseParen", toks, i)

functions_block(toks, i) == list_block("Functions", typed_predicate, toks, i)

TypedPredicate_parse_functions(toks, i) ==
  LET r == opt(functions_block, toks, i) IN
  Ok(r.i, IF r.val = <<>> THEN <<>> ELSE MapSeq(TypedPredicate, r.val[1]))

\* The predicate list repeats a parser that can succeed without consuming.
TypedPredicate_parse_predicates_stalled(toks, i) ==
  LET r == list_block("Predicates", LAMBDA t, j: opt(typed_predicate, t, j), toks, i) IN
  IF ~r.ok THEN r ELSE Ok(r.i, <<>>)

TypedPredicate_parse_predicates(toks, i) ==
  LET r == list_block("Predicates", typed_predicate, toks, i) IN
  IF ~r.ok THEN r ELSE Ok(r.i, MapSeq(TypedPredicate, r.val))

TypedPredicate_to_pddl(p) ==
  <<"(", p.name>> \o JoinMap(TypedParameter_to_pddl, p.parameters) \o <<")">>

\* many0(map(alt((id, var)), Into::into))
id_or_var(toks, i) ==
  LET a == id(toks, i) IN IF a.ok THEN a ELSE var(toks, i)

Parameter_parse_parameters(toks, i) == many0(id_or_var, toks, i)

(***************************************************************************)
(* Expressions: domain/expression.rs                                       *)
(***************************************************************************)

Atom(name, parameters) == [tag |-> "Atom", name |-> name, parameters |-> parameters]
And(exprs) == [tag |-> "And", exprs |-> exprs]
Not(e) == [tag |-> "Not", e |-> e]
\* Assign, Increase, Decrease, ScaleUp, ScaleDown
AssignOp(tag, a, b) == [tag |-> tag, a |-> a, b |-> b]
BinaryOp(op, a, b) == [tag |-> "BinaryOp", op |-> op, a |-> a, b |-> b]
Number(n) == [tag |-> "Number", n |-> n]
Forall(params, body) == [tag |-> "Forall", params |-> params, body |-> body]
Duration(instant, body) == [tag |-> "Duration", instant |-> instant, body |-> body]

RECURSIVE Expression_parse_expression(_, _)
RECURSIVE Expression_parse_comparison(_, _)

Expression_parse_and(toks, i) ==
  LET r == delimited("OpenParen",
                     LAMBDA t, j: preceded("And",
                                           LAMBDA t2, j2: many0(Expression_parse_expression, t2, j2),
                                           t, j),
                     "CloseParen", toks, i) IN
  IF ~r.ok THEN r ELSE Ok(r.i, And(r.val))

Expression_parse_not(toks, i) ==
  LET r == delimited("OpenParen",
                     LAMBDA t, j: preceded("Not", Expression_parse_expression, t, j),
                     "CloseParen", toks, i) IN
  IF ~r.ok THEN r ELSE Ok(r.i, Not(r.val))

\* An atom whose name may be any word, keywords included.
Expression_parse_atom_any_name(toks, i) ==
  LET word(t, j) ==
        LET p == TokenStream_peek(t, j) IN
        IF p # <<>> /\ p[1].k \notin {"OpenParen", "CloseParen", "Error"}
        THEN Ok(TokenStream_advance(t, j), p[1].s)
        ELSE Fail(ExpectedIdentifier) IN
  LET r == delimited("OpenParen",
                     LAMBDA t, j: pair(word, Parameter_parse_parameters, t, j),
                     "CloseParen", toks, i) IN
  IF ~r.ok THEN r ELSE Ok(r.i, Atom(r.val[1], r.val[2]))

Expression_parse_atom(toks, i) ==
  LET r == delimited("OpenParen",
                     LAMBDA t, j: pair(id, Parameter_parse_parameters, t, j),
                     "CloseParen", toks, i) IN
  IF ~r.ok THEN r ELSE Ok(r.i, Atom(r.val[1], r.val[2]))

Expression_parse_var(toks, i) ==
  LET r == var(toks, i) IN
  IF ~r.ok THEN r ELSE Ok(r.i, Atom(r.val, <<>>))

Expression_parse_number(toks, i) ==
  LET r == integer(toks, i) IN
  IF ~r.ok THEN r ELSE Ok(r.i, Number(r.val))

\* alt((parse_number, parse_comparison, parse_atom))
operand3(toks, i) ==
  LET a == Expression_parse_number(toks, i) IN
  IF a.ok THEN a
  ELSE LET b == Expression_parse_comparison(toks, i) IN
       IF b.ok THEN b ELSE Expression_parse_atom(toks, i)

\* alt((parse_number, parse_comparison, parse_atom, parse_var))
operand4(toks, i) ==
  LET a == Expression_parse_number(toks, i) IN
  IF a.ok THEN a
  ELSE LET b == Expression_parse_comparison(toks, i) IN
       IF b.ok THEN b
       ELSE LET c == Expression_parse_atom(toks, i) IN
            IF c.ok THEN c ELSE Expression_parse_var(toks, i)

\* The shape shared by parse_assign, parse_scale_up, parse_scale_down,
\* parse_increase and parse_decrease: ( keyword operand operand )
assign_form(k, tag, toks, i) ==
  LET r == delimited("OpenParen",
                     LAMBDA t, j: preceded(k, LAMBDA t2, j2: pair(operand3, operand3, t2, j2), t, j),
                     "CloseParen", toks, i) IN
  IF ~r.ok THEN r ELSE Ok(r.i, AssignOp(tag, r.val[1], r.val[2]))

Expression_parse_assign(toks, i) == assign_form("Assign", "Assign", toks, i)
Expression_parse_scale_up(toks, i) == assign_form("ScaleUp", "ScaleUp", toks, i)
Expression_parse_scale_down(toks, i) == assign_form("ScaleDown", "ScaleDown", toks, i)
Expression_parse_increase(toks, i) == assign_form("Increase", "Increase", toks, i)
Expression_parse_decrease(toks, i) == assign_form("Decrease", "Decrease", toks, i)

Expression_parse_binary_operator(toks, i) ==
  LET p == TokenStream_peek(toks, i) IN
  LET op == IF p = <<>> THEN "None"
            ELSE CASE p[1].k = "Plus" -> "Add"
                   [] p[1].k = "Dash" -> "Subtract"
                   [] p[1].k = "Times" -> "Multiply"
                   [] p[1].k = "Divide" -> "Divide"
                   [] p[1].k = "Equal" -> "Equal"
                   [] OTHER -> "None" IN
  IF op # "None" THEN Ok(TokenStream_advance(toks, i), op)
  ELSE Fail(ExpectedToken("Equal", toks, i))

Expression_parse_comparison(toks, i) ==
  LET r == delimited("OpenParen",
                     LAMBDA t, j: pair(Expression_parse_binary_operator,
                                       LAMBDA t2, j2: pair(operand4, operand4, t2, j2),
                                       t, j),
                     "CloseParen", toks, i) IN
  IF ~r.ok THEN r ELSE Ok(r.i, BinaryOp(r.val[1], r.val[2][1], r.val[2][2]))

parenthesized_typed_parameters(toks, i) ==
  delimited("OpenParen", TypedParameter_parse_typed_parameters, "CloseParen", toks, i)

Expression_parse_forall(toks, i) ==
  LET r == delimited("OpenParen",
                     LAMBDA t, j: preceded("Forall",
                                           LAMBDA t2, j2: pair(parenthesized_typed_parameters,
                                                               Expression_parse_expression, t2, j2),
                                           t, j),
                     "CloseParen", toks, i) IN
  IF ~r.ok THEN r ELSE Ok(r.i, Forall(r.val[1], r.val[2]))

\* tuple((Token::k1, Token::k2, parse_expression)) mapped to Duration(instant, _)
duration_form(k1, k2, instant, toks, i) ==
  LET r == preceded(k1, LAMBDA t, j: preceded(k2, Expression_parse_expression, t, j), toks, i) IN
  IF ~r.ok THEN r ELSE Ok(r.i, Duration(instant, r.val))

duration_alt(toks, i) ==
  LET a == duration_form("At", "Start", "Start", toks, i) IN
  IF a.ok THEN a
  ELSE LET b == duration_form("At", "End", "End", toks, i) IN
       IF b.ok THEN b ELSE duration_form("Over", "All", "All", toks, i)

Expression_parse_duration(toks, i) ==
  delimited("OpenParen", duration_alt, "CloseParen", toks, i)

\* alt((parse_assign, parse_scale_up, parse_scale_down, parse_increase, parse_decrease))
assign_alt(toks, i) ==
  LET a == Expression_parse_assign(toks, i) IN
  IF a.ok THEN a
  ELSE LET b == Expression_parse_scale_up(toks, i) IN
  IF b.ok THEN b
  ELSE LET c == Expression_parse_scale_down(toks, i) IN
  IF c.ok THEN c
  ELSE LET d == Expression_parse_increase(toks, i) IN
  IF d.ok THEN d ELSE Expression_parse_decrease(toks, i)

\* An alternation whose first branch keeps what it consumed before it
\* failed: the later branches start where parse_and stopped.
Expression_parse_expression_leaky(toks, i) ==
  LET a == Expression_parse_and(toks, i) IN
  IF a.ok THEN a
  ELSE LET j == IF a.err.kind = "ExpectedToken" THEN a.err.at ELSE i IN
  LET b == Expression_parse_not(toks, j) IN
  IF b.ok THEN b
  ELSE LET c == Expression_parse_atom(toks, j) IN
  IF c.ok THEN c
  ELSE LET d == assign_alt(toks, j) IN
  IF d.ok THEN d
  ELSE LET e == Expression_parse_duration(toks, j) IN
  IF e.ok THEN e
  ELSE LET f == Expression_parse_forall(toks, j) IN
  IF f.ok THEN f ELSE Expression_parse_comparison(toks, j)

\* An alternation that keeps the error of its first branch when every
\* branch fails.
Expression_parse_expression_first_error(toks, i) ==
  LET a == Expression_parse_and(toks, i) IN
  IF a.ok THEN a
  ELSE LET b == Expression_parse_not(toks, i) IN
  IF b.ok THEN b
  ELSE LET c == Expression_parse_atom(toks, i) IN
  IF c.ok THEN c
  ELSE LET d == assign_alt(toks, i) IN
  IF d.ok THEN d
  ELSE LET e == Expression_parse_duration(toks, i) IN
  IF e.ok THEN e
  ELSE LET f == Expression_parse_forall(toks, i) IN
  IF f.ok THEN f
  ELSE LET g == Expression_parse_comparison(toks, i) IN
  IF g.ok THEN g ELSE a

Expression_parse_expression(toks, i) ==
  LET a == Expression_parse_and(toks, i) IN
  IF a.ok THEN a
  ELSE LET b == Expression_parse_not(toks, i) IN
  IF b.ok THEN b
  ELSE LET c == Expression_parse_atom(toks, i) IN
  IF c.ok THEN c
  ELSE LET d == assign_alt(toks, i) IN
  IF d.ok THEN d
  ELSE LET e == Expression_parse_duration(toks, i) IN
  IF e.ok THEN e
  ELSE LET f == Expression_parse_forall(toks, i) IN
  IF f.ok THEN f ELSE Expression_parse_comparison(toks, i)

BinaryOp_to_pddl(op) ==
  CASE op = "Add" -> "+"
    [] op = "Subtract" -> "-"
    [] op = "Multiply" -> "*"
    [] op = "Divide" -> "/"
    [] OTHER -> "="

AssignOp_to_pddl(tag) ==
  CASE tag = "Assign" -> "assign"
    [] tag = "Increase" -> "increase"
    [] tag = "Decrease" -> "decrease"
    [] tag = "ScaleUp" -> "scale-up"
    [] OTHER -> "scale-down"

DurationInstant_to_pddl(instant) ==
  CASE instant = "Start" -> <<"at", "start">>
    [] instant = "End" -> <<"at", "end">>
    [] OTHER -> <<"over", "all">>

RECURSIVE Expression_to_pddl(_)
Expression_to_pddl(e) ==
  CASE e.tag = "Atom" -> <<"(", e.name>> \o e.parameters \o <<")">>
    [] e.tag = "And" -> <<"(", "and">> \o JoinMap(Expression_to_pddl, e.exprs) \o <<")">>
    [] e.tag = "Not" -> <<"(", "not">> \o Expression_to_pddl(e.e) \o <<")">>
    [] e.tag \in {"Assign", "Increase", "Decrease", "ScaleUp", "ScaleDown"} ->
         <<"(", AssignOp_to_pddl(e.tag)>> \o Expression_to_pddl(e.a)
           \o Expression_to_pddl(e.b) \o <<")">>
    [] e.tag = "BinaryOp" ->
         <<"(", BinaryOp_to_pddl(e.op)>> \o Expression_to_pddl(e.a)
           \o Expression_to_pddl(e.b) \o <<")">>
    [] e.tag = "Number" -> <<IntToString(e.n)>>
    [] e.tag = "Duration" ->
         <<"(">> \o DurationInstant_to_pddl(e.instant) \o Expression_to_pddl(e.body) \o <<")">>
    [] OTHER ->
         <<"(", "forall", "(">> \o JoinMap(TypedParameter_to_pddl, e.params) \o <<")">>
           \o Expression_to_pddl(e.body) \o <<")">>

(***************************************************************************)
(* Actions of a domain: domain/simple_action.rs, domain/durative_action.rs *)
(***************************************************************************)

SimpleAction(name, parameters, precondition, effect) ==
  [tag |-> "Simple", name |-> name, parameters |-> parameters,
   precondition |-> precondition, effect |-> effect]

DurativeAction(name, parameters, duration, condition, effect) ==
  [tag |-> "Durative", name |-> name, parameters |-> parameters,
   duration |-> duration, condition |-> condition, effect |-> effect]

\* preceded(Token::Parameters, delimited(OpenParen, parse_typed_parameters, CloseParen))
action_parameters(toks, i) == preceded("Parameters", parenthesized_typed_parameters, toks, i)

\* preceded(Token::k, Expression::parse_expression)
clause(k, toks, i) == preceded(k, Expression_parse_expression, toks, i)

\* tuple((id, parameters, opt(precondition), effect))
simple_action_body(toks, i) ==
  LET n == id(toks, i) IN
  IF ~n.ok THEN n
  ELSE LET ps == action_parameters(toks, n.i) IN
  IF ~ps.ok THEN ps
  ELSE LET pre == opt(LAMBDA t, j: clause("Precondition", t, j), toks, ps.i) IN
  LET eff == clause("Effect", toks, pre.i) IN
  IF ~eff.ok THEN eff
  ELSE Ok(eff.i, SimpleAction(n.val, ps.val, pre.val, eff.val))

SimpleAction_parse(toks, i) ==
  delimited("OpenParen",
            LAMBDA t, j: preceded("Action", simple_action_body, t, j),
            "CloseParen", toks, i)

\* tuple((id, parameters, duration, opt(condition), effect))
durative_action_body(toks, i) ==
  LET n == id(toks, i) IN
  IF ~n.ok THEN n
  ELSE LET ps == action_parameters(toks, n.i) IN
  IF ~ps.ok THEN ps
  ELSE LET dur == clause("Duration", toks, ps.i) IN
  IF ~dur.ok THEN dur
  ELSE LET cond == opt(LAMBDA t, j: clause("Condition", t, j), toks, dur.i) IN
  LET eff == clause("Effect", toks, cond.i) IN
  IF ~eff.ok THEN eff
  ELSE Ok(eff.i, DurativeAction(n.val, ps.val, dur.val, cond.val, eff.val))

DurativeAction_parse(toks, i) ==
  delimited("OpenParen",
            LAMBDA t, j: preceded("DurativeAction", durative_action_body, t, j),
            "CloseParen", toks, i)

\* The list parsers Domain::parse_domain calls.  A domain holds either
\* durative actions (one or more) or simple actions (zero or more).
DurativeAction_parse_actions(toks, i) == many1(DurativeAction_parse, toks, i)

SimpleAction_parse_actions(toks, i) == many0(SimpleAction_parse, toks, i)

SimpleAction_to_pddl(a) ==
  <<"(", ":action", a.name, ":parameters", "(">>
    \o JoinMap(TypedParameter_to_pddl, a.parameters) \o <<")">>
    \o (IF a.precondition = <<>> THEN <<>>
        ELSE <<":precondition">> \o Expression_to_pddl(a.precondition[1]))
    \o <<":effect">> \o Expression_to_pddl(a.effect) \o <<")">>

DurativeAction_to_pddl(a) ==
  <<"(", ":durative-action", a.name, ":parameters", "(">>
    \o JoinMap(TypedParameter_to_pddl, a.parameters) \o <<")">>
    \o <<":duration">> \o Expression_to_pddl(a.duration)
    \o (IF a.condition = <<>> THEN <<>>
        ELSE <<":condition">> \o Expression_to_pddl(a.condition[1]))
    \o <<":effect">> \o Expression_to_pddl(a.effect) \o <<")">>

\* domain/action.rs
Action_to_pddl(a) ==
  IF a.tag = "Simple" THEN SimpleAction_to_pddl(a) ELSE DurativeAction_to_pddl(a)

(***************************************************************************)
(* Domain: domain/domain.rs                                                *)
(***************************************************************************)

\* The Result of an entry point.
Done(v) == [ok |-> TRUE, val |-> v]

Domain_parse_name(toks, i) ==
  delimited("OpenParen", LAMBDA t, j: preceded("Domain", id, t, j), "CloseParen", toks, i)

\* alt((DurativeAction::parse_actions, SimpleAction::parse_actions))
domain_actions(toks, i) ==
  LET a == DurativeAction_parse_actions(toks, i) IN
  IF a.ok THEN a ELSE SimpleAction_parse_actions(toks, i)

\* The tuple with the predicates block made optional like its neighbours.
Domain_parse_domain_optional_predicates(toks, i) ==
  LET name == Domain_parse_name(toks, i) IN
  IF ~name.ok THEN name
  ELSE LET requirements == Requirement_parse_requirements(toks, name.i) IN
  IF ~requirements.ok THEN requirements
  ELSE LET types == opt(Type_parse_types, toks, requirements.i) IN
  LET constants == opt(Constant_parse_constants, toks, types.i) IN
  LET predicates == opt(TypedPredicate_parse_predicates, toks, constants.i) IN
  LET functions == TypedPredicate_parse_functions(toks, predicates.i) IN
  LET actions == domain_actions(toks, functions.i) IN
  IF ~actions.ok THEN actions
  ELSE Ok(actions.i,
          [name |-> name.val,
           requirements |-> requirements.val,
           types |-> IF types.val = <<>> THEN <<>> ELSE types.val[1],
           constants |-> IF constants.val = <<>> THEN <<>> ELSE constants.val[1],
           predicates |-> IF predicates.val = <<>> THEN <<>> ELSE predicates.val[1],
           functions |-> functions.val,
           actions |-> actions.val])

Domain_parse_domain(toks, i) ==
  LET name == Domain_parse_name(toks, i) IN
  IF ~name.ok THEN name
  ELSE LET requirements == Requirement_parse_requirements(toks, name.i) IN
  IF ~requirements.ok THEN requirements
  ELSE LET types == opt(Type_parse_types, toks, requirements.i) IN
  LET constants == opt(Constant_parse_constants, toks, types.i) IN
  LET predicates == TypedPredicate_parse_predicates(toks, constants.i) IN
  IF ~predicates.ok THEN predicates
  ELSE LET functions == TypedPredicate_parse_functions(toks, predicates.i) IN
  LET actions == domain_actions(toks, functions.i) IN
  IF ~actions.ok THEN actions
  ELSE Ok(actions.i,
          [name |-> name.val,
           requirements |-> requirements.val,
           types |-> IF types.val = <<>> THEN <<>> ELSE types.val[1],
           constants |-> IF constants.val = <<>> THEN <<>> ELSE constants.val[1],
           predicates |-> predicates.val,
           functions |-> functions.val,
           actions |-> actions.val])

Domain_parse(words) ==
  LET toks == TokenStream_new(words) IN
  LET r == delimited("OpenParen",
                     LAMBDA t, j: preceded("Define", Domain_parse_domain, t, j),
                     "CloseParen", toks, 1) IN
  IF ~r.ok THEN Fail(r.err)
  ELSE IF ~TokenStream_is_empty(toks, r.i) THEN Fail(ExpectedEndOfInput)
  ELSE Done(r.val)

\* A block of Domain::to_pddl: "(keyword items)" unless the list is empty.
Block(keyword, Item(_), items) ==
  IF items = <<>> THEN <<>>
  ELSE <<"(", keyword>> \o JoinMap(Item, items) \o <<")">>

Domain_to_pddl(d) ==
  <<"(", "define", "(", "domain", d.name, ")">>
    \o Block(":requirements", LAMBDA r: <<Requirement_to_pddl(r)>>, d.requirements)
    \o Block(":types", TypeDef_to_pddl, d.types)
    \o Block(":constants", Constant_to_pddl, d.constants)
    \o Block(":predicates", TypedPredicate_to_pddl, d.predicates)
    \o Block(":functions", TypedPredicate_to_pddl, d.functions)
    \o JoinMap(Action_to_pddl, d.actions)
    \o <<")">>

(***************************************************************************)
(* Problem: problem.rs                                                     *)
(***************************************************************************)

\* Object { name, type_ } with type_.unwrap_or_default()
Object(name, ty) ==
  [name |-> name, type_ |-> IF ty = <<>> THEN Type_default ELSE ty[1]]

Object_to_pddl(o) == <<o.name, "-">> \o Type_to_pddl(o.type_)

Problem_parse_name(toks, i) ==
  delimited("OpenParen", LAMBDA t, j: preceded("Problem", id, t, j), "CloseParen", toks, i)

Problem_parse_domain(toks, i) ==
  delimited("OpenParen", LAMBDA t, j: preceded("ProblemDomain", id, t, j), "CloseParen", toks, i)

\* pair(many1(id), opt(preceded(Token::Dash, Type::parse_type)))
objects_group(toks, i) ==
  pair(LAMBDA t, j: many1(id, t, j), LAMBDA t, j: opt(dash_type, t, j), toks, i)

Problem_parse_objects(toks, i) ==
  LET r == list_block("Objects", objects_group, toks, i) IN
  IF ~r.ok THEN r ELSE Ok(r.i, FlatMap(Object, r.val))

Problem_parse_init(toks, i) == list_block("Init", Expression_parse_expression, toks, i)

Problem_parse_goal(toks, i) ==
  delimited("OpenParen",
            LAMBDA t, j: preceded("Goal", Expression_parse_expression, t, j),
            "CloseParen", toks, i)

Problem_parse_problem(toks, i) ==
  LET name == Problem_parse_name(toks, i) IN
  IF ~name.ok THEN name
  ELSE LET domain == Problem_parse_domain(toks, name.i) IN
  IF ~domain.ok THEN domain
  ELSE LET objects == Problem_parse_objects(toks, domain.i) IN
  IF ~objects.ok THEN objects
  ELSE LET init == Problem_parse_init(toks, objects.i) IN
  IF ~init.ok THEN init
  ELSE LET goal == Problem_parse_goal(toks, init.i) IN
  IF ~goal.ok THEN goal
  ELSE Ok(goal.i, [name |-> name.val, domain |-> domain.val, objects |-> objects.val,
                   init |-> init.val, goal |-> goal.val])

Problem_parse(words) ==
  LET toks == TokenStream_new(words) IN
  LET r == delimited("OpenParen",
                     LAMBDA t, j: preceded("Define", Problem_parse_problem, t, j),
                     "CloseParen", toks, 1) IN
  IF ~r.ok THEN Fail(r.err)
  ELSE IF ~TokenStream_is_empty(toks, r.i) THEN Fail(ExpectedEndOfInput)
  ELSE Done(r.val)

Problem_to_pddl(p) ==
  <<"(", "define", "(", "problem", p.name, ")", "(", ":domain", p.domain, ")">>
    \o <<"(", ":objects">> \o JoinMap(Object_to_pddl, p.objects) \o <<")">>
    \o <<"(", ":init">> \o JoinMap(Expression_to_pddl, p.init) \o <<")">>
    \o <<"(", ":goal">> \o Expression_to_pddl(p.goal) \o <<")">>
    \o <<")">>

(***************************************************************************)
(* Plan: plan/plan.rs, plan/action.rs, plan/simple_action.rs,              *)
(* plan/durative_action.rs                                                 *)
(***************************************************************************)

PlanSimpleAction(name, parameters) == [name |-> name, parameters |-> parameters]

PlanDurativeAction(name, parameters, duration, timestamp) ==
  [name |-> name, parameters |-> parameters, duration |-> duration, timestamp |-> timestamp]

\* plan::action::Action and plan::plan::PlanItem wrap an invocation.
PlanAction(tag, a) == [tag |-> tag, act |-> a]
PlanItem(tag, x) == [tag |-> tag, item |-> x]

\* delimited(OpenParen, pair(id, parse_parameters), CloseParen)
invocation(toks, i) ==
  delimited("OpenParen",
            LAMBDA t, j: pair(id, Parameter_parse_parameters, t, j),
            "CloseParen", toks, i)

PlanSimpleAction_parse(toks, i) ==
  LET r == invocation(toks, i) IN
  IF ~r.ok THEN r ELSE Ok(r.i, PlanSimpleAction(r.val[1], r.val[2]))

\* The timestamp and the duration change places in the invocation.
PlanDurativeAction_parse_swapped(toks, i) ==
  LET ts == float(toks, i) IN
  IF ~ts.ok THEN ts
  ELSE LET colon == tok("Colon", toks, ts.i) IN
  IF ~colon.ok THEN colon
  ELSE LET call == invocation(toks, colon.i) IN
  IF ~call.ok THEN call
  ELSE LET dur == delimited("OpenBracket", float, "CloseBracket", toks, call.i) IN
  IF ~dur.ok THEN dur
  ELSE Ok(dur.i, PlanDurativeAction(call.val[1], call.val[2], ts.val, dur.val))

PlanDurativeAction_parse(toks, i) ==
  LET ts == float(toks, i) IN
  IF ~ts.ok THEN ts
  ELSE LET colon == tok("Colon", toks, ts.i) IN
  IF ~colon.ok THEN colon
  ELSE LET call == invocation(toks, colon.i) IN
  IF ~call.ok THEN call
  ELSE LET dur == delimited("OpenBracket", float, "CloseBracket", toks, call.i) IN
  IF ~dur.ok THEN dur
  ELSE Ok(dur.i, PlanDurativeAction(call.val[1], call.val[2], dur.val, ts.val))

PlanAction_parse(toks, i) ==
  LET a == PlanSimpleAction_parse(toks, i) IN
  IF a.ok THEN Ok(a.i, PlanAction("Simple", a.val))
  ELSE LET b == PlanDurativeAction_parse(toks, i) IN
       IF b.ok THEN Ok(b.i, PlanAction("Durative", b.val)) ELSE b

\* A durative item that stands for nothing when no durative line is there.
durative_item_or_nothing(toks, i) ==
  LET r == PlanDurativeAction_parse(toks, i) IN
  IF ~r.ok THEN Ok(i, PlanItem("Durative", <<>>)) ELSE Ok(r.i, PlanItem("Durative", r.val))

durative_item(toks, i) ==
  LET r == PlanDurativeAction_parse(toks, i) IN
  IF ~r.ok THEN r ELSE Ok(r.i, PlanItem("Durative", r.val))

simple_item(toks, i) ==
  LET r == PlanAction_parse(toks, i) IN
  IF ~r.ok THEN r ELSE Ok(r.i, PlanItem("Simple", r.val))

\* A plan read line by line, each line of either grammar.
Plan_parse_per_line(words) ==
  LET toks == TokenStream_new(words) IN
  LET r == many0(simple_item, toks, 1) IN
  IF ~r.ok THEN Fail(r.err)
  ELSE IF ~TokenStream_is_empty(toks, r.i) THEN Fail(ExpectedEndOfInput)
  ELSE Done(r.val)

Plan_parse(words) ==
  LET toks == TokenStream_new(words) IN
  LET a == many0(durative_item, toks, 1) IN
  LET r == IF a.ok THEN a ELSE many0(simple_item, toks, 1) IN
  IF ~r.ok THEN Fail(r.err)
  ELSE IF ~TokenStream_is_empty(toks, r.i) THEN Fail(ExpectedEndOfInput)
  ELSE Done(r.val)

\* Display for plan::simple_action::SimpleAction
PlanSimpleAction_fmt(a) == <<"(", a.name>> \o a.parameters \o <<")">>

\* Display for plan::durative_action::DurativeAction
PlanDurativeAction_fmt(a) == <<"(", a.name>> \o a.parameters \o <<")">>

\* Display for plan::action::Action
PlanAction_fmt(a) ==
  IF a.tag = "Simple" THEN PlanSimpleAction_fmt(a.act) ELSE PlanDurativeAction_fmt(a.act)

\* The text of a plan: its items in order, each by its Display.
PlanItem_fmt(it) ==
  IF it.tag = "Durative" THEN PlanDurativeAction_fmt(it.item) ELSE PlanAction_fmt(it.item)

Plan_fmt(items) == JoinMap(PlanItem_fmt, items)

(***************************************************************************)
(* The single-file domain module: domain.rs.  Its definitions carry the    *)
(* prefix Flat_; it has a parser and no printer.  Its parse_name,          *)
(* parse_requirements, parse_type, parse_typed_parameters, parse_constants,*)
(* parse_predicates, parse_functions, parse_atom and parse_number are the  *)
(* code of their namesakes under domain/, whose definitions stand for      *)
(* them here.                                                              *)
(***************************************************************************)

\* TypeDef { name, parent } with parent.unwrap_or_else(|| "object")
Flat_TypeDef(name, parent) ==
  [name |-> name, parent |-> IF parent = <<>> THEN "object" ELSE parent[1]]

Flat_Domain_parse_types(toks, i) ==
  LET r == list_block("Types", types_group, toks, i) IN
  IF ~r.ok THEN r ELSE Ok(r.i, FlatMap(Flat_TypeDef, r.val))

RECURSIVE Flat_Expression_parse_expression(_, _)
RECURSIVE Flat_Expression_parse_comparison(_, _)

Flat_Expression_parse_and(toks, i) ==
  LET r == list_block("And", Flat_Expression_parse_expression, toks, i) IN
  IF ~r.ok THEN r ELSE Ok(r.i, And(r.val))

Flat_Expression_parse_not(toks, i) ==
  LET r == block("Not", Flat_Expression_parse_expression, toks, i) IN
  IF ~r.ok THEN r ELSE Ok(r.i, Not(r.val))

\* alt((parse_number, parse_comparison, parse_atom))
Flat_operand(toks, i) ==
  LET a == Expression_parse_number(toks, i) IN
  IF a.ok THEN a
  ELSE LET b == Flat_Expression_parse_comparison(toks, i) IN
       IF b.ok THEN b ELSE Expression_parse_atom(toks, i)

\* parse_assign, parse_scale_up, parse_scale_down, parse_increase and
\* parse_decrease: ( keyword operand operand )
Flat_assign_form(k, toks, i) ==
  LET r == block(k, LAMBDA t, j: pair(Flat_operand, Flat_operand, t, j), toks, i) IN
  IF ~r.ok THEN r ELSE Ok(r.i, AssignOp(k, r.val[1], r.val[2]))

Flat_Expression_parse_binary_operator(toks, i) ==
  LET p == TokenStream_peek(toks, i) IN
  LET op == IF p = <<>> THEN "None"
            ELSE CASE p[1].k = "Plus" -> "Add"
                   [] p[1].k = "Dash" -> "Subtract"
                   [] p[1].k = "Times" -> "Multiply"
                   [] p[1].k = "Divide" -> "Divide"
                   [] OTHER -> "None" IN
  IF op # "None" THEN Ok(TokenStream_advance(toks, i), op)
  ELSE Fail(ExpectedToken("Divide", toks, i))

Flat_Expression_parse_comparison(toks, i) ==
  LET r == delimited("OpenParen",
                     LAMBDA t, j: pair(Flat_Expression_parse_binary_operator,
                                       LAMBDA t2, j2: pair(Flat_operand, Flat_operand, t2, j2),
                                       t, j),
                     "CloseParen", toks, i) IN
  IF ~r.ok THEN r ELSE Ok(r.i, BinaryOp(r.val[1], r.val[2][1], r.val[2][2]))

Flat_Expression_parse_expression(toks, i) ==
  LET a == Flat_Expression_parse_and(toks, i) IN
  IF a.ok THEN a
  ELSE LET b == Flat_Expression_parse_not(toks, i) IN
  IF b.ok THEN b
  ELSE LET c == Expression_parse_atom(toks, i) IN
  IF c.ok THEN c
  ELSE LET d == Flat_assign_form("Assign", toks, i) IN
  IF d.ok THEN d
  ELSE LET e == Flat_assign_form("ScaleUp", toks, i) IN
  IF e.ok THEN e
  ELSE LET f == Flat_assign_form("ScaleDown", toks, i) IN
  IF f.ok THEN f
  ELSE LET g == Flat_assign_form("Increase", toks, i) IN
  IF g.ok THEN g ELSE Flat_assign_form("Decrease", toks, i)

\* tuple((id, parameters, opt(precondition), effect)) mapped to
\* Action { name, parameters, precondition, effect }
Flat_action_body(toks, i) ==
  LET n == id(toks, i) IN
  IF ~n.ok THEN n
  ELSE LET ps == action_parameters(toks, n.i) IN
  IF ~ps.ok THEN ps
  ELSE LET pre == opt(LAMBDA t, j: preceded("Precondition", Flat_Expression_parse_expression, t, j),
                      toks, ps.i) IN
  LET eff == preceded("Effect", Flat_Expression_parse_expression, toks, pre.i) IN
  IF ~eff.ok THEN eff
  ELSE Ok(eff.i, [name |-> n.val, parameters |-> ps.val,
                  precondition |-> pre.val, effect |-> eff.val])

Flat_Domain_parse_actions(toks, i) ==
  many0(LAMBDA t, j: block("Action", Flat_action_body, t, j), toks, i)

Flat_Domain_parse_domain(toks, i) ==
  LET name == Domain_parse_name(toks, i) IN
  IF ~name.ok THEN name
  ELSE LET requirements == Requirement_parse_requirements(toks, name.i) IN
  IF ~requirements.ok THEN requirements
  ELSE LET types == opt(Flat_Domain_parse_types, toks, requirements.i) IN
  LET constants == opt(Constant_parse_constants, toks, types.i) IN
  LET predicates == TypedPredicate_parse_predicates(toks, constants.i) IN
  IF ~predicates.ok THEN predicates
  ELSE LET functions == TypedPredicate_parse_functions(toks, predicates.i) IN
  LET actions == Flat_Domain_parse_actions(toks, functions.i) IN
  IF ~actions.ok THEN actions
  ELSE Ok(actions.i,
          [name |-> name.val,
           requirements |-> requirements.val,
           types |-> IF types.val = <<>> THEN <<>> ELSE types.val[1],
           constants |-> IF constants.val = <<>> THEN <<>> ELSE constants.val[1],
           predicates |-> predicates.val,
           functions |-> functions.val,
           actions |-> actions.val])

\* Domain::parse of domain.rs: the cursor left after the closing
\* parenthesis is dropped without a look at what remains.
Flat_Domain_parse(words) ==
  LET toks == TokenStream_new(words) IN
  LET r == block("Define", Flat_Domain_parse_domain, toks, 1) IN
  IF ~r.ok THEN r ELSE Done(r.val)

\* Plan::parse of plan.rs, the single-file plan module: many0 over its
\* Action::parse, which reads "( name arg* )", then the end-of-input check.
Flat_Plan_parse(words) ==
  LET toks == TokenStream_new(words) IN
  LET r == many0(PlanSimpleAction_parse, toks, 1) IN
  IF ~r.ok THEN Fail(r.err)
  ELSE IF ~TokenStream_is_empty(toks, r.i) THEN Fail(ExpectedEndOfInput)
  ELSE Done(r.val)

(***************************************************************************)
(* Input texts                                                             *)
(***************************************************************************)

\* Requirements listed in a generated requirements block.
MaxReqs == 2
\* Names in one group of a typed list, and groups in a list.
MaxNames == 2
MaxGroups == 2
\* Nesting of the generated expressions around a leaf.
MaxDepth == 1
\* Lines of a generated plan.
MaxSteps == 2

\* The sequences over S of length at most n.
RECURSIVE SeqsUpTo(_, _)
SeqsUpTo(S, n) ==
  IF n = 0 THEN {<<>>}
  ELSE LET shorter == SeqsUpTo(S, n - 1) IN
       shorter \cup {<<x>> \o q : x \in S, q \in {r \in shorter : Len(r) = n - 1}}

\* The concatenation of a sequence of word sequences.
RECURSIVE Concat(_)
Concat(ss) == IF ss = <<>> THEN <<>> ELSE Head(ss) \o Concat(Tail(ss))

\* Typed lists: groups of names, each with an optional "- type" suffix.
TypeSuffixes ==
  {<<>>, <<"-", "t">>, <<"-", "(", "either", "t", "u", ")">>, <<"-", "(", "either", ")">>}

\* The names of a group: a and b in turn, n of them.
NameRun(a, b, n) == [k \in 1..n |-> IF k % 2 = 1 THEN a ELSE b]

Groups(a, b, suffixes) ==
  {ns \o sfx : ns \in {NameRun(a, b, n) : n \in 1..MaxNames} \cup
                        {NameRun(b, a, n) : n \in 1..MaxNames},
               sfx \in suffixes}

TypedLists(a, b, suffixes) ==
  {Concat(gs) : gs \in SeqsUpTo(Groups(a, b, suffixes), MaxGroups)}

TypedParametersTexts == TypedLists("?x", "?y", TypeSuffixes)

ObjectsTexts ==
  {<<"(", ":objects">> \o l \o <<")">> : l \in TypedLists("a", "b", TypeSuffixes)}

TypesTexts ==
  {<<"(", ":types">> \o l \o <<")">> :
     l \in TypedLists("a", "b", {<<>>, <<"-", "t">>, <<"-", "object">>})}

\* Expressions: leaves, and MaxDepth levels of forms around them.
ExprLeaves ==
  { <<"(", "p", ")">>,
    <<"(", "at-robot", "a", "?x", ")">>,
    <<"(", "and", ")">>,
    <<"(", "=", "?x", "1", ")">>,
    <<"(", "-", "(", "f", "a", ")", "-1", ")">>,
    <<"(", "+", "007", "(", "*", "?x", "?y", ")", ")">>,
    <<"(", "assign", "(", "f", ")", "5", ")">>,
    <<"(", "increase", "(", "f", ")", "(", "/", "1", "(", "f", "a", ")", ")", ")">>,
    <<"(", "scale-up", "(", "f", ")", "0", ")">>,
    <<"(", "AT", "a", ")">>,
    <<"(", "p", "#", ")">>,
    <<"(", "p">> }

Wrap(e) ==
  { <<"(", "not">> \o e \o <<")">>,
    <<"(", "and">> \o e \o <<"(", "q", "b", ")", ")">>,
    <<"(", "at", "start">> \o e \o <<")">>,
    <<"(", "at", "End">> \o e \o <<")">>,
    <<"(", "over", "all">> \o e \o <<")">>,
    <<"(", "forall", "(", "?x", "?y", "-", "t", ")">> \o e \o <<")">>,
    <<"(", "decrease">> \o e \o <<"1", ")">>,
    <<"(", "=">> \o e \o <<"?y", ")">> }

RECURSIVE ExprTexts(_)
ExprTexts(depth) ==
  IF depth = 0 THEN ExprLeaves
  ELSE LET inner == ExprTexts(depth - 1) IN
       inner \cup UNION {Wrap(e) : e \in inner}

\* Domains.
DomainHeaders ==
  { <<"(", "define", "(", "domain", "d", ")">>,
    <<"(", "DEFINE", ";c", "(", "domain", "d", ")">> }

ReqWords == {":strips", ":Typing", ":fluents", ":durative-actions", ":adl"}

\* The requirements block of the durative-actions test domain.
DurativeReqBlock ==
  <<"(", ":requirements", ":strips", ":typing", ":durative-actions", ":numeric-fluents", ")">>

ReqBlocks ==
  {<<"(", ":requirements">> \o rs \o <<")">> : rs \in SeqsUpTo(ReqWords, MaxReqs)}
    \cup { <<>>, DurativeReqBlock,
           <<"(", ":requirements", ":strips", "a", ")">>,
           <<"(", ":requirements", ":strips">> }

SimpleActionText ==
  <<"(", ":action", "m", ":parameters", "(", "?x", "-", "t", "?y", ")",
    ":precondition", "(", "p", "?x", ")",
    ":effect", "(", "and", "(", "not", "(", "p", "?x", ")", ")", "(", "q", ")", ")", ")">>

SimpleActionText2 ==
  <<"(", ":action", "k", ":parameters", "(", ")", ":effect", "(", "q", ")", ")">>

DurativeActionText ==
  <<"(", ":durative-action", "m", ":parameters", "(", "?x", "-", "t", ")",
    ":duration", "(", "=", "?duration", "5", ")",
    ":condition", "(", "at", "start", "(", "p", "?x", ")", ")",
    ":effect", "(", "at", "end", "(", "q", ")", ")", ")">>

DurativeActionText2 ==
  <<"(", ":durative-action", "k", ":parameters", "(", ")",
    ":duration", "(", "p", ")",
    ":effect", "(", "over", "all", "(", "q", ")", ")", ")">>

TypesBlocks == {<<>>, <<"(", ":types", "a", "b", "-", "t", "u", ")">>, <<"(", ":types", "t", ")">>}

ConstantsBlocks ==
  {<<>>, <<"(", ":constants", ")">>, <<"(", ":constants", "k", "-", "t", ")">>}

PredicatesBlocks ==
  { <<"(", ":predicates", ")">>,
    <<"(", ":predicates", "(", "p", "?x", "-", "t", ")", "(", "q", ")", ")">> }

FunctionsBlocks == {<<>>, <<"(", ":functions", "(", "f", "?x", ")", ")">>}

ActionsTexts ==
  {<<>>, SimpleActionText, SimpleActionText \o SimpleActionText2,
   DurativeActionText, DurativeActionText2}

\* What follows the closing parenthesis of the top-level form.
Tails == {<<>>, <<")">>, <<"#">>, <<";c">>}

\* The sections after the requirements, in order, without the closing parenthesis.
DomainBodies ==
  {ty \o c \o p \o f \o a :
     ty \in TypesBlocks, c \in ConstantsBlocks, p \in PredicatesBlocks,
     f \in FunctionsBlocks, a \in ActionsTexts}

\* Bodies that follow every generated requirements block; the last two are malformed.
FewBodies ==
  { <<"(", ":predicates", ")", ")">>,
    <<"(", ":predicates", "(", "p", ")", ")">> \o DurativeActionText \o <<")">>,
    <<"(", ":predicates", "(", ")", ")">>,
    <<"#">> }

\* The durative-actions test domain in miniature.
DurativeDomainText ==
  <<"(", "define", "(", "domain", "d", ")">> \o DurativeReqBlock
    \o <<"(", ":predicates", "(", "p", ")", ")">> \o DurativeActionText \o <<")">>

\* Domains whose sections are out of order, doubled, or lack the predicates.
DisorderedDomainTexts ==
  {<<"(", "define", "(", "domain", "d", ")">> \o b \o <<")">> :
     b \in { <<"(", ":predicates", ")", "(", ":types", "t", ")">>,
             <<"(", ":functions", "(", "f", ")", ")", "(", ":predicates", ")">>,
             <<"(", ":constants", "k", "-", "t", ")", "(", ":types", "t", ")", "(", ":predicates", ")">>,
             <<"(", ":types", "t", ")", "(", ":requirements", ":strips", ")", "(", ":predicates", ")">>,
             SimpleActionText2 \o <<"(", ":predicates", ")">>,
             <<"(", ":predicates", ")">> \o SimpleActionText2 \o <<"(", ":functions", "(", "f", ")", ")">>,
             <<"(", ":predicates", ")", "(", ":predicates", ")">>,
             <<"(", ":types", "t", ")", "(", ":functions", "(", "f", ")", ")">>,
             <<"(", ":types", "t", ")">> \o SimpleActionText2,
             <<>> }}

\* Domains with an either type in a predicate, the second one without a name.
EitherDomainTexts ==
  {<<"(", "define", "(", "domain", "d", ")", "(", ":predicates", "(", "p", "?x", "-", "(", "either">>
     \o ns \o <<")", ")", ")", ")">> : ns \in {<<"t", "u">>, <<"t">>, <<>>}}

\* Domains with an optional block that opens as it should and is malformed
\* inside.
MalformedBlockDomainTexts ==
  {<<"(", "define", "(", "domain", "d", ")">> \o b \o <<")">> :
     b \in { <<"(", ":types", "a", "-", ")", "(", ":predicates", ")">>,
             <<"(", ":requirements", ":adl", "a", ")", "(", ":predicates", ")">>,
             <<"(", ":requirements", ":strips", ")", "(", ":types", "#", ")", "(", ":predicates", ")">>,
             <<"(", ":types", "t", ")", "(", ":constants", "k", ")", "(", ":predicates", ")">>,
             <<"(", ":constants", "k", "-", "(", "either", ")", ")", "(", ":predicates", ")">>,
             <<"(", ":predicates", ")", "(", ":functions", "(", "f", "?x", "-", ")", ")">>,
             <<"(", ":predicates", ")", "(", ":functions", "f", ")">> \o SimpleActionText2,
             <<"(", ":types", "t", ")", "(", ":functions", "(", ")", ")">> }}

DomainTexts ==
  {h \o r \o b : h \in DomainHeaders, r \in ReqBlocks, b \in FewBodies}
    \cup {<<"(", "define", "(", "domain", "d", ")">> \o r \o b \o <<")">> \o tl :
            r \in {<<>>, <<"(", ":requirements", ":strips", ":typing", ")">>},
            b \in DomainBodies, tl \in Tails}
    \cup DisorderedDomainTexts \cup EitherDomainTexts \cup MalformedBlockDomainTexts

\* Texts for the single-file domain module: no durative actions.
FlatDomainTexts ==
  {<<"(", "define", "(", "domain", "d", ")">> \o r \o ty \o p \o a \o <<")">> \o tl :
     r \in {<<>>, <<"(", ":requirements", ":strips", ")">>, <<"(", ":requirements", ":adl", ")">>},
     ty \in TypesBlocks, p \in PredicatesBlocks,
     a \in {<<>>, SimpleActionText, SimpleActionText2, DurativeActionText2}, tl \in Tails}

\* Problems.
ObjectsBlocks ==
  { <<"(", ":objects", ")">>,
    <<"(", ":objects", "a", "b", "-", "t", "k", ")">>,
    <<"(", ":objects", "a", "-", "(", "either", "t", "u", ")", ")">> }

InitBlocks ==
  { <<"(", ":init", ")">>,
    <<"(", ":init", "(", "p", "a", ")", "(", "=", "(", "f", ")", "1", ")", ")">>,
    <<"(", ":init", "(", "p", "a", ")", "(", "q", ")", ")">> }

ProblemTexts ==
  {<<"(", "define", "(", "problem", "p", ")", "(", ":domain", "d", ")">>
     \o o \o n \o <<"(", ":goal">> \o g \o <<")", ")">> \o tl :
     o \in ObjectsBlocks, n \in InitBlocks, g \in ExprTexts(MaxDepth), tl \in {<<>>, <<"a">>}}
    \cup {<<"(", "define", "(", "problem", "p", ")", "(", ":domain", "d", ")",
            "(", ":objects", "a", "-", "(", "either", ")", ")",
            "(", ":init", ")", "(", ":goal", "(", "p", ")", ")", ")">>}

\* Plans.
PlanLines ==
  {<<ts, ":", "(", "m">> \o args \o <<")", "[", dur, "]">> :
     ts \in {"0.000", "0.5"}, args \in {<<>>, <<"a", "?x">>}, dur \in {"1.5", "100.000"}}
    \cup {<<"(", "m">> \o args \o <<")">> : args \in {<<>>, <<"a", "b">>}}
    \cup {<<"1", ":", "(", "m", ")", "[", "1.5", "]">>, <<"0.5", ":", "(", "m", ")">>}

PlanTexts == {Concat(ls) \o tl : ls \in SeqsUpTo(PlanLines, MaxSteps), tl \in {<<>>, <<")">>}}

\* Texts for the token stream on its own: plan lines, and texts that begin
\* or end with words the lexer skips or does not recognize.
CursorTexts ==
  PlanLines \cup
  { <<>>, <<";c">>, <<"(", "p", ")", ";c">>, <<";c", "(", "#", "a", ")", "(in-package)">>,
    <<"#">>, <<"define", ";c", "?x", "#">> }

\* Calls of advance() made on a stream beyond its number of tokens.
MaxExtraAdvances == 2

(***************************************************************************)
(* The state machine: a text is parsed, the value printed, the printed     *)
(* text parsed again and, for domains and problems, printed again.         *)
(***************************************************************************)

NotRun == Fail(ParserError("NotRun", "", 0))

Init ==
  /\ \/ kind = "domain" /\ input \in DomainTexts
     \/ kind = "problem" /\ input \in ProblemTexts
     \/ kind = "plan" /\ input \in PlanTexts
     \/ kind = "expression" /\ input \in ExprTexts(MaxDepth)
     \/ kind = "typed_parameters" /\ input \in TypedParametersTexts
     \/ kind = "objects" /\ input \in ObjectsTexts
     \/ kind = "types" /\ input \in TypesTexts
     \/ kind = "flat_domain" /\ input \in FlatDomainTexts
     \/ kind = "flat_plan" /\ input \in PlanTexts
     \/ kind = "cursor" /\ input \in CursorTexts
     \/ kind = "plan_items" /\ input \in PlanTexts
     \/ kind = "and_items" /\ input \in ExprTexts(MaxDepth)
  /\ pc = "start"
  /\ parsed = NotRun
  /\ text = <<>>
  /\ reparsed = NotRun
  /\ retext = <<>>

\* One call of an operation.  A parser is applied to the input and, once
\* the parsed value has been printed, to the printed text; a printer is
\* applied to the value parsed last.  Each action takes the operation it
\* calls as its argument, and Next names it.
Step(k, from, to) == kind = k /\ pc = from /\ pc' = to /\ UNCHANGED <<kind, input>>

DomainParse(parse(_)) ==
  \/ /\ Step("domain", "start", "parsed")
     /\ parsed' = parse(input)
     /\ UNCHANGED <<text, reparsed, retext>>
  \/ /\ Step("domain", "printed", "reparsed")
     /\ reparsed' = parse(text)
     /\ UNCHANGED <<parsed, text, retext>>

DomainToPddl(to_pddl(_)) ==
  \/ /\ Step("domain", "parsed", "printed") /\ parsed.ok
     /\ text' = to_pddl(parsed.val)
     /\ UNCHANGED <<parsed, reparsed, retext>>
  \/ /\ Step("domain", "reparsed", "reprinted") /\ reparsed.ok
     /\ retext' = to_pddl(reparsed.val)
     /\ UNCHANGED <<parsed, text, reparsed>>

ProblemParse(parse(_)) ==
  \/ /\ Step("problem", "start", "parsed")
     /\ parsed' = parse(input)
     /\ UNCHANGED <<text, reparsed, retext>>
  \/ /\ Step("problem", "printed", "reparsed")
     /\ reparsed' = parse(text)
     /\ UNCHANGED <<parsed, text, retext>>

ProblemToPddl(to_pddl(_)) ==
  \/ /\ Step("problem", "parsed", "printed") /\ parsed.ok
     /\ text' = to_pddl(parsed.val)
     /\ UNCHANGED <<parsed, reparsed, retext>>
  \/ /\ Step("problem", "reparsed", "reprinted") /\ reparsed.ok
     /\ retext' = to_pddl(reparsed.val)
     /\ UNCHANGED <<parsed, text, reparsed>>

PlanParse(parse(_)) ==
  \/ /\ Step("plan", "start", "parsed")
     /\ parsed' = parse(input)
     /\ UNCHANGED <<text, reparsed, retext>>
  \/ /\ Step("plan", "printed", "reparsed")
     /\ reparsed' = parse(text)
     /\ UNCHANGED <<parsed, text, retext>>

PlanFmt(to_pddl(_)) ==
  /\ Step("plan", "parsed", "printed") /\ parsed.ok
  /\ text' = to_pddl(parsed.val)
  /\ UNCHANGED <<parsed, reparsed, retext>>

ExpressionParse(parse(_, _)) ==
  \/ /\ Step("expression", "start", "parsed")
     /\ parsed' = parse(TokenStream_new(input), 1)
     /\ UNCHANGED <<text, reparsed, retext>>
  \/ /\ Step("expression", "printed", "reparsed")
     /\ reparsed' = parse(TokenStream_new(text), 1)
     /\ UNCHANGED <<parsed, text, retext>>

ExpressionToPddl(to_pddl(_)) ==
  /\ Step("expression", "parsed", "printed") /\ parsed.ok
  /\ text' = to_pddl(parsed.val)
  /\ UNCHANGED <<parsed, reparsed, retext>>

TypedParametersParse(parse(_, _)) ==
  /\ Step("typed_parameters", "start", "parsed")
  /\ parsed' = parse(TokenStream_new(input), 1)
  /\ UNCHANGED <<text, reparsed, retext>>

ObjectsParse(parse(_, _)) ==
  /\ Step("objects", "start", "parsed")
  /\ parsed' = parse(TokenStream_new(input), 1)
  /\ UNCHANGED <<text, reparsed, retext>>

TypesParse(parse(_, _)) ==
  /\ Step("types", "start", "parsed")
  /\ parsed' = parse(TokenStream_new(input), 1)
  /\ UNCHANGED <<text, reparsed, retext>>

FlatDomainParse(parse(_)) ==
  /\ Step("flat_domain", "start", "parsed")
  /\ parsed' = parse(input)
  /\ UNCHANGED <<text, reparsed, retext>>

FlatPlanParse(parse(_)) ==
  /\ Step("flat_plan", "start", "parsed")
  /\ parsed' = parse(input)
  /\ UNCHANGED <<text, reparsed, retext>>

\* The repetition of Plan::parse, one attempt of many0 per step: the parsed
\* value holds the cursor and the items so far while pc is "looping" (first
\* alternative) or "retrying" (second alternative, tried from the start of
\* the input when the first repetition fails).  An attempt that consumes
\* nothing makes many0 fail; an attempt that fails ends the repetition, and
\* the plan is returned when no token is left.
PlanItemsAttempt(first(_, _), second(_, _)) ==
  LET toks == TokenStream_new(input) IN
  LET i == IF pc = "start" THEN 1 ELSE parsed.i IN
  LET acc == IF pc = "start" THEN <<>> ELSE parsed.val IN
  LET r == IF pc = "retrying" THEN second(toks, i) ELSE first(toks, i) IN
  IF r.ok /\ r.i # i
  THEN [pc |-> IF pc = "retrying" THEN "retrying" ELSE "looping",
        parsed |-> Ok(r.i, Append(acc, r.val))]
  ELSE IF r.ok /\ pc # "retrying"
  THEN [pc |-> "retrying", parsed |-> Ok(1, <<>>)]
  ELSE IF r.ok
  THEN [pc |-> "parsed", parsed |-> Fail(from_error_kind("Many0"))]
  ELSE [pc |-> "parsed",
        parsed |-> IF TokenStream_is_empty(toks, i) THEN Done(acc)
                   ELSE Fail(ExpectedEndOfInput)]

PlanItemsStep(first(_, _), second(_, _)) ==
  /\ kind = "plan_items" /\ pc \in {"start", "looping", "retrying"}
  /\ pc' = PlanItemsAttempt(first, second).pc
  /\ parsed' = PlanItemsAttempt(first, second).parsed
  /\ UNCHANGED <<kind, input, text, reparsed, retext>>

\* The repetition of Expression::parse_and, one attempt of many0 per step,
\* after "(" and "and" and before ")".
AndItemsAttempt(parse(_, _)) ==
  LET toks == TokenStream_new(input) IN
  IF pc = "start"
  THEN LET o == tok("OpenParen", toks, 1) IN
       LET a == IF o.ok THEN tok("And", toks, o.i) ELSE o IN
       IF a.ok THEN [pc |-> "looping", parsed |-> Ok(a.i, <<>>)]
       ELSE [pc |-> "parsed", parsed |-> a]
  ELSE LET r == parse(toks, parsed.i) IN
       IF r.ok /\ r.i # parsed.i
       THEN [pc |-> "looping", parsed |-> Ok(r.i, Append(parsed.val, r.val))]
       ELSE IF r.ok
       THEN [pc |-> "parsed", parsed |-> Fail(from_error_kind("Many0"))]
       ELSE LET c == tok("CloseParen", toks, parsed.i) IN
            [pc |-> "parsed",
             parsed |-> IF c.ok THEN Ok(c.i, And(parsed.val)) ELSE c]

AndItemsStep(parse(_, _)) ==
  /\ kind = "and_items" /\ pc \in {"start", "looping"}
  /\ pc' = AndItemsAttempt(parse).pc
  /\ parsed' = AndItemsAttempt(parse).parsed
  /\ UNCHANGED <<kind, input, text, reparsed, retext>>

\* TokenStream::new: the cursor before the first token; the parsed value
\* holds the cursor and the number of advance() calls made.
TokenStreamNew ==
  /\ Step("cursor", "start", "stream")
  /\ parsed' = Ok(1, 0)
  /\ UNCHANGED <<text, reparsed, retext>>

\* TokenStream::advance.
TokenStreamAdvance(advance(_, _)) ==
  /\ Step("cursor", "stream", "stream")
  /\ parsed.val < Len(TokenStream_new(input)) + MaxExtraAdvances
  /\ parsed' = Ok(advance(TokenStream_new(input), parsed.i), parsed.val + 1)
  /\ UNCHANGED <<text, reparsed, retext>>

\* The methods that take &self: peek, peek_n, len, is_empty and span are
\* called and what they return is noted in text.
TokenStreamObserve(len(_, _, _, _)) ==
  /\ Step("cursor", "stream", "stream")
  /\ LET toks == TokenStream_new(input) IN
     text' = << TokenStream_peek(toks, parsed.i),
                TokenStream_peek_n(toks, parsed.i, LookaheadLimit),
                len(input, toks, parsed.i, parsed.val),
                TokenStream_is_empty(toks, parsed.i),
                TokenStream_span(toks, parsed.i) >>
  /\ UNCHANGED <<parsed, reparsed, retext>>

Next ==
  \/ DomainParse(Domain_parse)
  \/ DomainToPddl(Domain_to_pddl)
  \/ ProblemParse(Problem_parse)
  \/ ProblemToPddl(Problem_to_pddl)
  \/ PlanParse(Plan_parse)
  \/ PlanFmt(Plan_fmt)
  \/ ExpressionParse(Expression_parse_expression)
  \/ ExpressionToPddl(Expression_to_pddl)
  \/ TypedParametersParse(TypedParameter_parse_typed_parameters)
  \/ ObjectsParse(Problem_parse_objects)
  \/ TypesParse(Type_parse_types)
  \/ FlatDomainParse(Flat_Domain_parse)
  \/ FlatPlanParse(Flat_Plan_parse)
  \/ PlanItemsStep(durative_item, simple_item)
  \/ AndItemsStep(Expression_parse_expression)
  \/ TokenStreamNew
  \/ TokenStreamAdvance(TokenStream_advance)
  \/ TokenStreamObserve(TokenStream_len)

Spec == Init /\ [][Next]_vars

\* A step of a parser that has been called and has not returned yet,
\* whatever the step makes of the result so far.
ParserRuns ==
  /\ kind # "cursor"
  /\ pc \in {"start", "looping", "retrying"}
  /\ pc' \in {"looping", "retrying", "parsed"}
  /\ (parsed' = parsed \/ parsed' # parsed)
  /\ UNCHANGED <<kind, input, text, reparsed, retext>>

\* The parsers are sequential code: a call that has begun takes its steps
\* one after the other for as long as it has not returned.
LiveSpec == Spec /\ WF_vars(ParserRuns)

(***************************************************************************)
(* Properties                                                              *)
(***************************************************************************)

\* The printed text of the parsed value has been parsed again.
Reparsed(k) == kind = k /\ pc \in {"reparsed", "reprinted"}

\* C1: domain round trip.  Whenever Domain::parse returned Ok(d), parsing
\* d.to_pddl() returns Ok(d') with d' = d.
C1_DomainRoundTrip ==
  Reparsed("domain") => reparsed.ok /\ reparsed.val = parsed.val

\* C2: problem round trip.  Whenever Problem::parse returned Ok(p), parsing
\* p.to_pddl() returns Ok(p') with p' = p.
C2_ProblemRoundTrip ==
  Reparsed("problem") => reparsed.ok /\ reparsed.val = parsed.val

\* C3: plan round trip.  Whenever Plan::parse returned Ok(p), parsing the
\* items of p printed in order returns a plan equal to p, timestamps and
\* durations included.
C3_PlanRoundTrip ==
  Reparsed("plan") => reparsed.ok /\ reparsed.val = parsed.val

\* C4: expression round trip.  Whenever parse_expression returned an
\* expression e, parse_expression on e.to_pddl() succeeds, consumes the
\* whole text and returns e.
C4_ExpressionRoundTrip ==
  Reparsed("expression") =>
    /\ reparsed.ok
    /\ TokenStream_is_empty(TokenStream_new(text), reparsed.i)
    /\ reparsed.val = parsed.val

\* C5: printer idempotence.  For every value x returned by Domain::parse or
\* Problem::parse, parsing x.to_pddl() succeeds and printing the re-parsed
\* value gives the same text again.
C5_PrinterIdempotence ==
  (Reparsed("domain") \/ Reparsed("problem")) =>
    /\ reparsed.ok
    /\ pc = "reprinted" => retext = text

\* The tokens of the input text.
InputTokens == TokenStream_new(input)

\* The input opens with "( define ( domain name )" and a well-formed
\* requirements block "( :requirements r1 ... rn )" of n requirement keywords.
RequirementsBlockOf(toks, n) ==
  /\ Len(toks) >= 9 + n
  /\ <<toks[1].k, toks[2].k, toks[3].k, toks[4].k, toks[5].k, toks[6].k>>
       = <<"OpenParen", "Define", "OpenParen", "Domain", "Id", "CloseParen">>
  /\ toks[7].k = "OpenParen"
  /\ toks[8].k = "Requirements"
  /\ \A j \in 9..(8 + n) : toks[j].k \in Requirement
  /\ toks[9 + n].k = "CloseParen"

\* Some requirement of the block of n requirements is neither :strips nor :typing.
GateCase(toks, n) ==
  /\ RequirementsBlockOf(toks, n)
  /\ \E j \in 9..(8 + n) : toks[j].k \notin {"Strips", "Typing"}

\* The first requirement of the block, in source order, that is neither
\* :strips nor :typing.
FirstOutsideSubset(toks, n) ==
  LET j == CHOOSE j \in 9..(8 + n) :
             /\ toks[j].k \notin {"Strips", "Typing"}
             /\ \A h \in 9..(j - 1) : toks[h].k \in {"Strips", "Typing"} IN
  toks[j].k

C7_DurativeDomainAccepted ==
  (kind = "domain" /\ pc = "parsed" /\ input = DurativeDomainText) =>
    /\ parsed.ok
    /\ parsed.val.requirements = <<"Strips", "Typing", "DurativeActions", "NumericFluents">>

\* Some prefix of the input is a text P accepts, and what follows it holds
\* at least one token.
ValidThenMore(P(_)) ==
  \E n \in 1..(Len(input) - 1) :
    /\ TokenStream_new(SubSeq(input, n + 1, Len(input))) # <<>>
    /\ P(SubSeq(input, 1, n)).ok

\* As ValidThenMore for a plan, whose items are not delimited: the token
\* after the plan is one no item begins with.
PlanThenMore ==
  \E n \in 0..(Len(input) - 1) :
    LET rest == TokenStream_new(SubSeq(input, n + 1, Len(input))) IN
    /\ rest # <<>>
    /\ rest[1].k \notin {"Float", "OpenParen"}
    /\ Plan_parse(SubSeq(input, 1, n)).ok

\* The input is a valid top-level form followed by at least one more token.
FormThenMore ==
  \/ kind = "domain" /\ ValidThenMore(Domain_parse)
  \/ kind = "flat_domain" /\ ValidThenMore(Flat_Domain_parse)
  \/ kind = "problem" /\ ValidThenMore(Problem_parse)
  \/ kind = "plan" /\ PlanThenMore

\* C8: completeness.  For each of Domain::parse (of domain/domain.rs and of
\* domain.rs), Problem::parse and Plan::parse, a valid top-level form
\* followed by at least one more token gives Err(ExpectedEndOfInput), and
\* the result is Ok only when no token follows the form.
C8_Completeness ==
  (pc = "parsed" /\ FormThenMore) => parsed = Fail(ExpectedEndOfInput)

\* The class of the words that are names in the list under test: variables
\* in a parameter list, identifiers in :objects and :types.
NameClass == IF kind = "typed_parameters" THEN VarWords ELSE IdWords

\* The last position before j whose word is not of the name class, 0 if none.
LastOtherBefore(j) ==
  LET others == {b \in 1..(j - 1) : input[b] \notin NameClass} IN
  IF others = {} THEN 0 ELSE CHOOSE b \in others : \A c \in others : c <= b

\* The first position after j whose word is not of the name class, 0 if none.
FirstOtherAfter(j) ==
  LET others == {q \in (j + 1)..Len(input) : input[q] \notin NameClass} IN
  IF others = {} THEN 0 ELSE CHOOSE q \in others : \A c \in others : q <= c

\* Position j holds a name of the list: a word of the name class that is
\* neither the type after a dash nor a member of an either list.
IsName(j) ==
  /\ input[j] \in NameClass
  /\ LET b == LastOtherBefore(j) IN
     \/ b = 0
     \/ input[b] # "either" /\ ~(input[b] = "-" /\ j = b + 1)

NamePositions == {j \in 1..Len(input) : IsName(j)}

\* The position of the k-th name of the list.
NamePosition(k) ==
  CHOOSE j \in NamePositions : Cardinality({h \in NamePositions : h < j}) = k - 1

\* The type written at position p, as an Option: an identifier, or
\* "( either id ... id )" with at least one identifier.
WrittenType(p) ==
  IF p > Len(input) THEN <<>>
  ELSE IF input[p] \in IdWords THEN <<Simple(input[p])>>
  ELSE IF p + 2 <= Len(input) /\ input[p] = "(" /\ input[p + 1] = "either"
  THEN LET stops == {e \in (p + 2)..Len(input) : input[e] \notin IdWords} IN
       LET e == IF stops = {} THEN Len(input) + 1
                ELSE CHOOSE x \in stops : \A y \in stops : x <= y IN
       IF e > p + 2 /\ e <= Len(input) /\ input[e] = ")"
       THEN <<Either(SubSeq(input, p + 2, e - 1))>> ELSE <<>>
  ELSE <<>>

\* The "- type" suffix of the group the name at j belongs to, as an Option.
GroupSuffix(j) ==
  LET q == FirstOtherAfter(j) IN
  IF q > 0 /\ input[q] = "-" THEN WrittenType(q + 1) ELSE <<>>

\* Every dash of the list is followed by a type.
SuffixesWellFormed == \A q \in 1..Len(input) : input[q] = "-" => WrittenType(q + 1) # <<>>

\* C9: default typing.  parse_typed_parameters and Problem::parse_objects
\* produce one record per name, in order; a name whose group has no
\* "- type" suffix gets Simple("object"), a name whose group has one gets
\* exactly that type.
C9_DefaultTyping ==
  (kind \in {"typed_parameters", "objects"} /\ pc = "parsed") =>
    /\ SuffixesWellFormed => parsed.ok /\ Len(parsed.val) = Cardinality(NamePositions)
    /\ parsed.ok =>
         /\ Len(parsed.val) <= Cardinality(NamePositions)
         /\ \A k \in 1..Len(parsed.val) :
              LET j == NamePosition(k) IN
              parsed.val[k] =
                [name |-> input[j],
                 type_ |-> IF GroupSuffix(j) = <<>> THEN Simple("object")
                           ELSE GroupSuffix(j)[1]]

\* A parameter list has been parsed in which a group of two names has no
\* suffix and another group has an either type.
C9_Witness ==
  /\ kind = "typed_parameters" /\ pc = "parsed" /\ parsed.ok
  /\ Len(parsed.val) >= 3
  /\ \E k \in 1..(Len(parsed.val) - 1) :
       /\ GroupSuffix(NamePosition(k)) = <<>>
       /\ parsed.val[k].type_ = Simple("object")
       /\ parsed.val[k + 1].type_ = Simple("object")
  /\ \E k \in 1..Len(parsed.val) : parsed.val[k].type_ = Either(<<"t", "u">>)

\* The parent written for the group of the type name at j, as an Option.
GroupParent(j) ==
  LET q == FirstOtherAfter(j) IN
  IF q > 0 /\ q < Len(input) /\ input[q] = "-" /\ input[q + 1] \in IdWords
  THEN <<input[q + 1]>> ELSE <<>>

\* Type::parse_types has produced one TypeDef per name of the block, in
\* order, where a name whose group has no suffix has the parent none.
TypeDefsWithDefault(none) ==
  /\ parsed.ok
  /\ Len(parsed.val) = Cardinality(NamePositions)
  /\ \A k \in 1..Len(parsed.val) :
       LET j == NamePosition(k) IN
       parsed.val[k] =
         [name |-> input[j],
          parent |-> IF GroupParent(j) = <<>> THEN none ELSE GroupParent(j)]

\* C10 as stated: in a (:types ...) block every name of a group without the
\* "- parent" suffix yields a TypeDef whose parent is "object"; every name of
\* a group with the suffix yields a TypeDef whose parent is that identifier.
C10_ParentDefaultsToObject ==
  (kind = "types" /\ pc = "parsed") => TypeDefsWithDefault(<<"object">>)

\* C10 as amended: every name of a group without the "- parent" suffix
\* yields a TypeDef whose parent is None; every name of a group with the
\* suffix yields a TypeDef whose parent is Some of that identifier.
C10_ParentDefaultsToNone ==
  (kind = "types" /\ pc = "parsed") => TypeDefsWithDefault(<<>>)

\* A :types block has been parsed in which a group of two names has a
\* parent and a later name has none.
C10_Witness ==
  /\ kind = "types" /\ pc = "parsed" /\ parsed.ok
  /\ Len(parsed.val) >= 3
  /\ parsed.val[1].parent # <<>>
  /\ parsed.val[2].parent = parsed.val[1].parent
  /\ GroupParent(NamePosition(Len(parsed.val))) = <<>>
  /\ parsed.val[Len(parsed.val)].parent = <<>>

\* Every group of the list under test carries a well-formed "- T" suffix.
EveryGroupTyped ==
  /\ SuffixesWellFormed
  /\ \A j \in NamePositions : GroupSuffix(j) # <<>>

\* The names at positions j and h stand in the same group: only names lie
\* between them.
SameGroup(j, h) == \A q \in j..h : input[q] \in NameClass

\* C11: fan-out.  For a typed list made of groups "v1 ... vk - T",
\* parse_typed_parameters returns one TypedParameter per variable, in source
\* order, each typed with the T of its own group: the records are as many as
\* the variables, and two variables of one group never differ in type.
C11_FanOut ==
  (kind = "typed_parameters" /\ pc = "parsed" /\ EveryGroupTyped) =>
    /\ parsed.ok
    /\ Len(parsed.val) = Cardinality({j \in 1..Len(input) : input[j] \in VarWords})
    /\ \A k \in 1..Len(parsed.val) :
         /\ parsed.val[k].name = input[NamePosition(k)]
         /\ parsed.val[k].type_ = GroupSuffix(NamePosition(k))[1]
    /\ \A k, l \in 1..Len(parsed.val) :
         (k < l /\ SameGroup(NamePosition(k), NamePosition(l)))
           => parsed.val[k].type_ = parsed.val[l].type_

\* A list of two groups of two variables each, the groups typed differently,
\* has been parsed into four records.
C11_Witness ==
  /\ kind = "typed_parameters" /\ pc = "parsed" /\ EveryGroupTyped /\ parsed.ok
  /\ Len(parsed.val) = 4
  /\ parsed.val[1].type_ = parsed.val[2].type_
  /\ parsed.val[3].type_ = parsed.val[4].type_
  /\ parsed.val[2].type_ # parsed.val[3].type_

\* The first successful result of the branches of an alternation, each
\* branch run on its own; <<>> when every branch fails.
FirstSuccess(results) ==
  LET oks == {k \in 1..Len(results) : results[k].ok} IN
  IF oks = {} THEN <<>>
  ELSE <<results[CHOOSE k \in oks : \A h \in oks : k <= h]>>

\* The alternation has returned what its first successful branch returns
\* when that branch is started at the cursor the alternation was given.
AltKeepsCursor(result, results) ==
  FirstSuccess(results) # <<>> => result = FirstSuccess(results)[1]

\* The branches of Expression::parse_expression, each started at cursor i.
ExpressionBranches(toks, i) ==
  << Expression_parse_and(toks, i), Expression_parse_not(toks, i),
     Expression_parse_atom(toks, i), Expression_parse_assign(toks, i),
     Expression_parse_scale_up(toks, i), Expression_parse_scale_down(toks, i),
     Expression_parse_increase(toks, i), Expression_parse_decrease(toks, i),
     Expression_parse_duration(toks, i), Expression_parse_forall(toks, i),
     Expression_parse_comparison(toks, i) >>

\* The branches of the operand alternatives, each started at cursor i.
OperandBranches(toks, i) ==
  << Expression_parse_number(toks, i), Expression_parse_comparison(toks, i),
     Expression_parse_atom(toks, i), Expression_parse_var(toks, i) >>

\* The branches of Type::parse_type, each started at cursor i.
TypeBranches(toks, i) ==
  LET s == id(toks, i) IN
  LET e == block("Either", LAMBDA t, j: many1(id, t, j), toks, i) IN
  << IF s.ok THEN Ok(s.i, Simple(s.val)) ELSE s,
     IF e.ok THEN Ok(e.i, Either(e.val)) ELSE e >>

\* The branches of plan Action::parse, each started at cursor i.
PlanActionBranches(toks, i) ==
  LET s == PlanSimpleAction_parse(toks, i) IN
  LET d == PlanDurativeAction_parse(toks, i) IN
  << IF s.ok THEN Ok(s.i, PlanAction("Simple", s.val)) ELSE s,
     IF d.ok THEN Ok(d.i, PlanAction("Durative", d.val)) ELSE d >>

\* The branches of the alternation of Plan::parse, each started at the
\* beginning of the text.
PlanBranches(toks) == <<many0(durative_item, toks, 1), many0(simple_item, toks, 1)>>

\* What Plan::parse makes of the result of its alternation.
PlanResult(toks, r) ==
  IF ~TokenStream_is_empty(toks, r.i) THEN Fail(ExpectedEndOfInput) ELSE Done(r.val)

\* C12: non-consuming failure in alt.  Every alternation of the grammar
\* (parse_expression, the operand alternatives, parse_type, plan
\* Action::parse, Plan::parse) hands each branch the cursor it was given
\* itself: whatever an earlier branch matched before it failed, the result
\* is that of the first branch that succeeds from the original position.
C12_NonConsumingAlt ==
  pc = "parsed" =>
    LET toks == InputTokens IN
    /\ kind = "expression" =>
         AltKeepsCursor(parsed, ExpressionBranches(toks, 1))
    /\ kind = "expression" =>
         \A i \in 1..(Len(toks) + 1) :
           /\ AltKeepsCursor(Expression_parse_expression(toks, i), ExpressionBranches(toks, i))
           /\ AltKeepsCursor(operand4(toks, i), OperandBranches(toks, i))
           /\ AltKeepsCursor(operand3(toks, i), SubSeq(OperandBranches(toks, i), 1, 3))
    /\ kind \in {"typed_parameters", "objects"} =>
         \A i \in 1..(Len(toks) + 1) :
           AltKeepsCursor(Type_parse_type(toks, i), TypeBranches(toks, i))
    /\ kind = "plan" =>
         /\ FirstSuccess(PlanBranches(toks)) # <<>> =>
              parsed = PlanResult(toks, FirstSuccess(PlanBranches(toks))[1])
         /\ \A i \in 1..(Len(toks) + 1) :
              AltKeepsCursor(PlanAction_parse(toks, i), PlanActionBranches(toks, i))

\* An expression has been parsed whose first two branches matched the
\* opening parenthesis and then failed on the second token, and a later
\* branch succeeded from the first token.
C12_Witness ==
  /\ kind = "expression" /\ pc = "parsed" /\ parsed.ok
  /\ Expression_parse_and(InputTokens, 1) = Fail(ExpectedToken("And", InputTokens, 2))
  /\ Expression_parse_not(InputTokens, 1) = Fail(ExpectedToken("Not", InputTokens, 2))
  /\ parsed.val.tag \in {"Forall", "BinaryOp", "Duration"}


(***************************************************************************)
(* C13: simple plan parsing                                                *)
(***************************************************************************)

\* Positions of the closing parentheses of a text, and the k-th of them.
Closes(ws) == {p \in 1..Len(ws) : ws[p] = ")"}

CloseAt(ws, k) ==
  CHOOSE p \in Closes(ws) : Cardinality({q \in Closes(ws) : q <= p}) = k

\* The k-th line of a text whose lines each end with a closing parenthesis.
ParenLine(ws, k) ==
  SubSeq(ws, IF k = 1 THEN 1 ELSE CloseAt(ws, k - 1) + 1, CloseAt(ws, k))

\* A line of the form "( name arg* )".
IsSimpleLine(l) ==
  /\ Len(l) >= 3
  /\ l[1] = "(" /\ l[Len(l)] = ")"
  /\ l[2] \in IdWords
  /\ \A p \in 3..(Len(l) - 1) : l[p] \in IdWords \cup VarWords

OnlySimpleLines(ws) ==
  /\ ws # <<>>
  /\ ws[Len(ws)] = ")"
  /\ \A k \in 1..Cardinality(Closes(ws)) : IsSimpleLine(ParenLine(ws, k))

\* The invocation a simple line writes.
LineInvocation(l) ==
  PlanSimpleAction(Token(l[2]).s,
                   [p \in 1..(Len(l) - 3) |-> Token(l[p + 2]).s])

\* The simple invocation held by an item of the parsed plan: plan/plan.rs
\* wraps it as PlanItem::Simple(Action::Simple(..)), plan.rs holds it bare.
SimpleInvocationOf(it) ==
  IF kind = "flat_plan" THEN <<it>>
  ELSE IF it.tag = "Simple" /\ it.item.tag = "Simple" THEN <<it.item.act>>
  ELSE <<>>

\* C13: a plan text made of n >= 1 lines "( name arg* )" and nothing else
\* parses to Ok with exactly n simple invocations, in source order, each
\* with the name and the arguments of its line.
C13_SimplePlanParsing ==
  (kind \in {"plan", "flat_plan"} /\ pc = "parsed" /\ OnlySimpleLines(input)) =>
    /\ parsed.ok
    /\ Len(parsed.val) = Cardinality(Closes(input))
    /\ \A k \in 1..Len(parsed.val) :
         SimpleInvocationOf(parsed.val[k]) = <<LineInvocation(ParenLine(input, k))>>

\* The same statement of Plan::parse of plan.rs alone.
C13_FlatPlanParsing ==
  kind = "flat_plan" => C13_SimplePlanParsing

\* Plan::parse of plan/plan.rs on a plan of two simple lines.
C13_SimplePlanRejected ==
  /\ kind = "plan" /\ pc = "parsed"
  /\ OnlySimpleLines(input) /\ Cardinality(Closes(input)) = 2
  /\ parsed = Fail(ExpectedEndOfInput)


(***************************************************************************)
(* C14: durative plan parsing                                              *)
(***************************************************************************)

\* Positions of the closing brackets of a text, and the k-th of them.
BracketCloses(ws) == {p \in 1..Len(ws) : ws[p] = "]"}

BracketCloseAt(ws, k) ==
  CHOOSE p \in BracketCloses(ws) :
    Cardinality({q \in BracketCloses(ws) : q <= p}) = k

\* The k-th line of a text whose lines each end with a closing bracket.
BracketLine(ws, k) ==
  SubSeq(ws, IF k = 1 THEN 1 ELSE BracketCloseAt(ws, k - 1) + 1,
         BracketCloseAt(ws, k))

\* A line of the form "timestamp : ( name arg* ) [ duration ]", the
\* timestamp and the duration being float literals.
IsDurativeLine(l) ==
  /\ Len(l) >= 8
  /\ l[1] \in FloatWords /\ l[2] = ":" /\ l[3] = "("
  /\ l[4] \in IdWords
  /\ \A p \in 5..(Len(l) - 4) : l[p] \in IdWords \cup VarWords
  /\ l[Len(l) - 3] = ")" /\ l[Len(l) - 2] = "["
  /\ l[Len(l) - 1] \in FloatWords /\ l[Len(l)] = "]"

OnlyDurativeLines(ws) ==
  /\ ws # <<>>
  /\ ws[Len(ws)] = "]"
  /\ \A k \in 1..Cardinality(BracketCloses(ws)) : IsDurativeLine(BracketLine(ws, k))

\* The invocation a durative line writes.
DurativeLineInvocation(l) ==
  PlanDurativeAction(Token(l[4]).s,
                     [p \in 1..(Len(l) - 8) |-> Token(l[p + 4]).s],
                     FloatValue(l[Len(l) - 1]),
                     FloatValue(l[1]))

\* C14: a plan text made of n >= 1 lines "timestamp: (name arg*) [duration]"
\* parses to Ok with exactly n durative invocations, in source order, each
\* with the name, the arguments, the timestamp and the duration of its line.
C14_DurativePlanParsing ==
  (kind = "plan" /\ pc = "parsed" /\ OnlyDurativeLines(input)) =>
    /\ parsed.ok
    /\ Len(parsed.val) = Cardinality(BracketCloses(input))
    /\ \A k \in 1..Len(parsed.val) :
         parsed.val[k] =
           PlanItem("Durative", DurativeLineInvocation(BracketLine(input, k)))

\* A plan of two durative lines with arguments has been parsed.
C14_Witness ==
  /\ kind = "plan" /\ pc = "parsed"
  /\ OnlyDurativeLines(input) /\ Cardinality(BracketCloses(input)) = 2
  /\ parsed.ok /\ Len(parsed.val) = 2
  /\ parsed.val[1].item.timestamp # parsed.val[2].item.timestamp
  /\ parsed.val[2].item.parameters # <<>>


(***************************************************************************)
(* C15: lexical errors                                                     *)
(***************************************************************************)

\* The parse entry points: the parse functions of Domain, Problem and Plan.
EntryKinds == {"domain", "problem", "plan", "flat_domain", "flat_plan"}

\* An entry point has failed at an exact-token parser whose cursor stood on
\* an unrecognized character: a consumer has read that position.
ReachedUnrecognized ==
  /\ kind \in EntryKinds /\ pc = "parsed"
  /\ ~parsed.ok
  /\ parsed.err.kind = "ExpectedToken"
  /\ parsed.err.at \in 1..Len(InputTokens)
  /\ InputTokens[parsed.err.at].k = "Error"

\* C15: when parsing reaches an unrecognized character, the entry point
\* returns Err(LexerError).
C15_LexerErrorSurfaces ==
  ReachedUnrecognized => parsed.err.kind = "LexerError"

\* No entry point ever returns LexerError.
C15_LexerErrorNeverReturned ==
  (kind \in EntryKinds /\ pc = "parsed" /\ ~parsed.ok) => parsed.err.kind # "LexerError"

\* Domain::parse of domain/domain.rs has stopped on an unrecognized
\* character with ExpectedToken.
C15_UnrecognizedGivesExpectedToken ==
  ReachedUnrecognized /\ kind = "domain"


(***************************************************************************)
(* C16: closed error taxonomy                                              *)
(***************************************************************************)

\* The error kinds the parse entry points are said to return.
ClosedErrorKinds ==
  {"UnsupportedRequirement", "LexerError", "ExpectedIdentifier", "ExpectedToken",
   "ExpectedInteger", "ExpectedFloat", "ExpectedEndOfInput", "IncompleteInput"}

\* C16: Domain::parse, Problem::parse and Plan::parse return Ok or an Err of
\* one of the closed kinds; never UnknownError, and never the generic
\* ParseError(kind, text) that the many0 no-progress guard would build.
C16_ClosedErrorTaxonomy ==
  (kind \in EntryKinds /\ pc = "parsed") =>
    /\ parsed.ok \in BOOLEAN
    /\ ~parsed.ok => parsed.err.kind \in ClosedErrorKinds

\* Domain::parse has run the many0 loops of two predicate definitions with
\* typed parameters to their end and then failed on what follows.
C16_Witness ==
  /\ kind = "domain" /\ pc = "parsed"
  /\ \E p \in 1..Len(InputTokens) :
       /\ InputTokens[p].k = "Predicates"
       /\ InputTokens[p + 1].k = "OpenParen"
       /\ InputTokens[p + 2].k = "Id"
       /\ InputTokens[p + 3].k = "Var"
  /\ ~parsed.ok
  /\ parsed.err.kind = "ExpectedEndOfInput"


(***************************************************************************)
(* C17: the exact-token primitive                                          *)
(***************************************************************************)

\* Expected tokens tried at every cursor position of the input.
ExpectedTokens == {"OpenParen", "CloseParen", "Dash"}

\* The number of tokens from cursor i to the end of the tokens.
Remaining(toks, i) == Len(toks) + 1 - i

\* The statement of C17 for expected token k at cursor i.
ExactToken(k, toks, i) ==
  LET r == tok(k, toks, i) IN
  /\ r.ok <=> (Remaining(toks, i) > 0 /\ toks[i].k = k)
  /\ r.ok => r.i = i + 1 /\ r.val = toks[i].s
  /\ ~r.ok =>
       /\ r.err.kind = "ExpectedToken" /\ r.err.arg = k
       /\ Remaining(toks, i) = 0 => r.err.next = <<>>
       /\ Remaining(toks, i) > 0 =>
            /\ Len(r.err.next) = 1
            /\ Len(r.err.next[1]) <= 30
            /\ Len(r.err.next[1]) =
                 (IF Remaining(toks, i) < 30 THEN Remaining(toks, i) ELSE 30)
            /\ \A j \in 1..Len(r.err.next[1]) :
                 r.err.next[1][j] = toks[i + j - 1]

\* C17: an expected token applied to a cursor succeeds iff the next token
\* is a lexed token equal to it, and then returns the cursor one token
\* further and the token's slice; otherwise it returns ExpectedToken with
\* the expected token and a lookahead of at most 30 upcoming tokens, None at
\* the end of the input.
C17_ExactToken ==
  (pc = "parsed" /\ kind \in {"domain", "plan", "typed_parameters", "objects", "types"}) =>
    LET toks == InputTokens IN
    \A k \in ExpectedTokens : \A i \in 1..(Len(toks) + 1) : ExactToken(k, toks, i)

\* Domain::parse has failed at an exact token with more than 30 tokens
\* ahead of the cursor, and the error carries the first 30 of them.
C17_Witness ==
  /\ kind = "domain" /\ pc = "parsed" /\ ~parsed.ok
  /\ parsed.err.kind = "ExpectedToken"
  /\ Remaining(InputTokens, parsed.err.at) > 30
  /\ Len(parsed.err.next[1]) = 30
  /\ InputTokens[parsed.err.at].k # parsed.err.arg


(***************************************************************************)
(* C18: span                                                               *)
(***************************************************************************)

\* The byte range of a token.
ByteRange(t) == <<t.lo, t.hi>>

\* C18: span() is the byte range of the token peek() returns at the same
\* cursor, so the span of an ExpectedToken error is the byte range of the
\* token that failed to match.
C18_SpanOfPeekedToken ==
  pc = "parsed" =>
    LET toks == InputTokens IN
    /\ \A i \in 1..Len(toks) :
         TokenStream_span(toks, i) = ByteRange(TokenStream_peek(toks, i)[1])
    /\ (~parsed.ok /\ parsed.err.kind = "ExpectedToken"
          /\ parsed.err.at \in 1..Len(toks)) =>
         parsed.err.span = ByteRange(toks[parsed.err.at])

\* What the cursor does: span() is the byte range of the token consumed
\* last, 0..0 before the first token, and an ExpectedToken error carries it.
C18_SpanOfConsumedToken ==
  pc = "parsed" =>
    LET toks == InputTokens IN
    /\ TokenStream_span(toks, 1) = <<0, 0>>
    /\ \A i \in 2..(Len(toks) + 1) : TokenStream_span(toks, i) = ByteRange(toks[i - 1])
    /\ (~parsed.ok /\ parsed.err.kind = "ExpectedToken") =>
         parsed.err.span = TokenStream_span(toks, parsed.err.at)

\* An entry point has failed at an exact token after consuming tokens, and
\* the error's span is the byte range of the token before the failing one.
C18_SpanBeforeFailingToken ==
  /\ kind \in EntryKinds /\ pc = "parsed"
  /\ ~parsed.ok /\ parsed.err.kind = "ExpectedToken"
  /\ parsed.err.at \in 2..Len(InputTokens)
  /\ parsed.err.span = ByteRange(InputTokens[parsed.err.at - 1])
  /\ parsed.err.span # ByteRange(InputTokens[parsed.err.at])


(***************************************************************************)
(* C19: the error of an alternation                                        *)
(***************************************************************************)

\* The alternation has returned its first success, or, every branch having
\* failed, the error of its last branch.
AltOutcome(result, results) ==
  IF FirstSuccess(results) # <<>> THEN result = FirstSuccess(results)[1]
  ELSE result = results[Len(results)]

\* C19: an alternation returns the first success of its branches in listed
\* order and, when every branch fails, exactly the error of the last listed
\* branch; every failure of Expression::parse_expression is the error of
\* parse_comparison.
C19_AlternationError ==
  pc = "parsed" =>
    LET toks == InputTokens IN
    /\ kind = "expression" =>
         /\ AltOutcome(parsed, ExpressionBranches(toks, 1))
         /\ \A i \in 1..(Len(toks) + 1) :
              LET r == Expression_parse_expression(toks, i) IN
              /\ ~r.ok => r = Expression_parse_comparison(toks, i)
              /\ AltOutcome(operand4(toks, i), OperandBranches(toks, i))
    /\ kind \in {"typed_parameters", "objects"} =>
         \A i \in 1..(Len(toks) + 1) :
           AltOutcome(Type_parse_type(toks, i), TypeBranches(toks, i))
    /\ kind = "plan" =>
         \A i \in 1..(Len(toks) + 1) :
           AltOutcome(PlanAction_parse(toks, i), PlanActionBranches(toks, i))

\* An expression that opens like an atom has been refused: the branches of
\* parse_and and parse_atom failed with their own errors, and the result is
\* the different error of parse_comparison.
C19_Witness ==
  /\ kind = "expression" /\ pc = "parsed"
  /\ ~parsed.ok
  /\ Len(InputTokens) >= 2 /\ InputTokens[2].k = "Id"
  /\ ~Expression_parse_and(InputTokens, 1).ok
  /\ ~Expression_parse_atom(InputTokens, 1).ok
  /\ Expression_parse_and(InputTokens, 1) # parsed
  /\ Expression_parse_atom(InputTokens, 1) # parsed
  /\ parsed = Expression_parse_comparison(InputTokens, 1)


(***************************************************************************)
(* C20: opt, many0 and many1 keep the cursor of their last success         *)
(***************************************************************************)

\* The number of successive successful attempts of parser P from cursor i.
RECURSIVE Successes(_, _, _)
Successes(P(_, _), toks, i) ==
  LET r == P(toks, i) IN
  IF ~r.ok \/ r.i = i THEN 0 ELSE 1 + Successes(P, toks, r.i)

\* The cursor after n successive successful attempts of P from cursor i.
RECURSIVE AfterAttempts(_, _, _, _)
AfterAttempts(P(_, _), toks, i, n) ==
  IF n = 0 THEN i ELSE AfterAttempts(P, toks, P(toks, i).i, n - 1)

\* The items of the successful attempts of P from cursor i, in order.
AttemptItems(P(_, _), toks, i) ==
  [k \in 1..Successes(P, toks, i) |-> P(toks, AfterAttempts(P, toks, i, k - 1)).val]

\* A repetition has returned the items of its successful attempts and the
\* cursor just after the last of them, where the next attempt fails.
RepetitionOutcome(r, P(_, _), toks, i) ==
  /\ r.ok
  /\ r.val = AttemptItems(P, toks, i)
  /\ r.i = AfterAttempts(P, toks, i, Successes(P, toks, i))
  /\ ~P(toks, r.i).ok

\* The statement of C20 for one group of a typed list at cursor i:
\* many1(var) fails with no variable; the optional type is absent, at the
\* cursor where it started, when "- type" fails, whatever it matched.
TypedGroupKeepsCursor(toks, i) ==
  LET m == many1(var, toks, i) IN
  LET g == typed_parameters_group(toks, i) IN
  /\ m.ok <=> var(toks, i).ok
  /\ ~m.ok => ~g.ok
  /\ m.ok => RepetitionOutcome(m, var, toks, i)
  /\ m.ok =>
       LET d == dash_type(toks, m.i) IN
       /\ g.ok /\ g.val[1] = m.val
       /\ d.ok => g.i = d.i /\ g.val[2] = <<d.val>>
       /\ ~d.ok => g.i = m.i /\ g.val[2] = <<>>

\* The statement of C20 for a typed list read from cursor i with result r:
\* the list is the repetition of its groups.
TypedListOutcome(r, toks, i) ==
  /\ r.ok
  /\ r.val = FlatMap(TypedParameter, AttemptItems(typed_parameters_group, toks, i))
  /\ r.i = AfterAttempts(typed_parameters_group, toks, i,
                         Successes(typed_parameters_group, toks, i))
  /\ ~typed_parameters_group(toks, r.i).ok

\* C20: opt and many0/many1 never leak partial consumption.  A failed
\* optional part leaves the cursor where opt started; a repetition returns
\* the items of its successful attempts with the cursor just after the last
\* of them, whatever the failed attempt matched; many1 with no successful
\* attempt fails.  Checked of the groups of a typed list at every cursor, of
\* the typed list as parsed, and of the repetition of parse_and wherever
\* the input has the keyword.
C20_NoPartialConsumption ==
  pc = "parsed" =>
    LET toks == InputTokens IN
    /\ kind \in {"typed_parameters", "objects"} =>
         \A i \in 1..(Len(toks) + 1) : TypedGroupKeepsCursor(toks, i)
    /\ kind = "typed_parameters" => TypedListOutcome(parsed, toks, 1)
    /\ kind = "expression" =>
         \A i \in 2..(Len(toks) + 1) :
           toks[i - 1].k = "And" =>
             RepetitionOutcome(many0(Expression_parse_expression, toks, i),
                               Expression_parse_expression, toks, i)

\* A typed list has been parsed in which a variable is followed by a dash
\* and no type: the optional type matched the dash and failed, and the list
\* ends with its cursor on the dash.
C20_Witness ==
  /\ kind = "typed_parameters" /\ pc = "parsed"
  /\ parsed.ok /\ parsed.val # <<>>
  /\ parsed.i <= Len(InputTokens)
  /\ InputTokens[parsed.i].k = "Dash"
  /\ InputTokens[parsed.i - 1].k = "Var"
  /\ ~dash_type(InputTokens, parsed.i).ok


(***************************************************************************)
(* C21: one plan grammar for the whole document                            *)
(***************************************************************************)

\* The end of the plan line that starts at position p: the first closing
\* parenthesis for a line that opens with a parenthesis, the first closing
\* bracket otherwise; 0 when there is none.
LineEnd(ws, p) ==
  LET closer == IF ws[p] = "(" THEN ")" ELSE "]" IN
  LET ends == {e \in p..Len(ws) : ws[e] = closer} IN
  IF ends = {} THEN 0 ELSE CHOOSE e \in ends : \A f \in ends : e <= f

\* The lines of a plan text from position p on, <<>> included when a line
\* has no end.
RECURSIVE PlanLinesFrom(_, _)
PlanLinesFrom(ws, p) ==
  IF p > Len(ws) THEN <<>>
  ELSE LET e == LineEnd(ws, p) IN
       IF e = 0 THEN << <<>> >>
       ELSE <<SubSeq(ws, p, e)>> \o PlanLinesFrom(ws, e + 1)

\* A text of simple and durative lines with at least one of each.
MixedPlanText(ws) ==
  LET ls == PlanLinesFrom(ws, 1) IN
  /\ \A k \in 1..Len(ls) : IsSimpleLine(ls[k]) \/ IsDurativeLine(ls[k])
  /\ \E k \in 1..Len(ls) : IsSimpleLine(ls[k])
  /\ \E k \in 1..Len(ls) : IsDurativeLine(ls[k])

\* The invocation of a plan item is simple, or durative.
ItemIsSimple(it) == it.tag = "Simple" /\ it.item.tag = "Simple"

ItemIsDurative(it) ==
  it.tag = "Durative" \/ (it.tag = "Simple" /\ it.item.tag = "Durative")

\* C21: Plan::parse never returns a plan with both a simple and a durative
\* item, and a text that mixes simple lines with durative lines is rejected
\* with an error.
C21_OneGrammarPerPlan ==
  (kind = "plan" /\ pc = "parsed") =>
    /\ parsed.ok =>
         ~(/\ \E k \in 1..Len(parsed.val) : ItemIsSimple(parsed.val[k])
           /\ \E k \in 1..Len(parsed.val) : ItemIsDurative(parsed.val[k]))
    /\ MixedPlanText(input) => ~parsed.ok

\* A durative line followed by a simple line has been refused: the durative
\* grammar read the first line and the rest was left over.
C21_Witness ==
  /\ kind = "plan" /\ pc = "parsed"
  /\ MixedPlanText(input)
  /\ IsDurativeLine(PlanLinesFrom(input, 1)[1])
  /\ IsSimpleLine(PlanLinesFrom(input, 1)[2])
  /\ parsed = Fail(ExpectedEndOfInput)


(***************************************************************************)
(* C22: duration qualifiers outside durative actions                       *)
(***************************************************************************)

\* An expression holds an Expression::Duration node.
RECURSIVE HasDuration(_)
HasDuration(e) ==
  CASE e.tag = "Duration" -> TRUE
    [] e.tag = "And" -> \E k \in 1..Len(e.exprs) : HasDuration(e.exprs[k])
    [] e.tag = "Not" -> HasDuration(e.e)
    [] e.tag = "Forall" -> HasDuration(e.body)
    [] e.tag \in {"Atom", "Number"} -> FALSE
    [] OTHER -> HasDuration(e.a) \/ HasDuration(e.b)

\* The expressions of a parsed simple action.
SimpleActionExpressions(a) ==
  (IF a.precondition = <<>> THEN {} ELSE {a.precondition[1]}) \cup {a.effect}

\* C22: no successfully parsed SimpleAction or Problem contains an
\* Expression::Duration node: (at start e), (at end e) and (over all e) in a
\* simple action, in :init or in :goal make the parse fail.
C22_DurationOnlyInDurativeActions ==
  /\ (kind = "problem" /\ pc = "parsed" /\ parsed.ok) =>
       /\ \A k \in 1..Len(parsed.val.init) : ~HasDuration(parsed.val.init[k])
       /\ ~HasDuration(parsed.val.goal)
  /\ (kind = "domain" /\ pc = "parsed" /\ parsed.ok) =>
       \A k \in 1..Len(parsed.val.actions) :
         parsed.val.actions[k].tag = "Simple" =>
           \A e \in SimpleActionExpressions(parsed.val.actions[k]) : ~HasDuration(e)


(***************************************************************************)
(* C23: the sections of a domain                                           *)
(***************************************************************************)

\* The nesting depth in front of each token.
RECURSIVE DepthsBefore(_, _)
DepthsBefore(toks, acc) ==
  IF Len(acc) = Len(toks) THEN acc
  ELSE LET p == Len(acc) IN
       DepthsBefore(toks,
         Append(acc, IF p = 0 THEN 0
                     ELSE acc[p] + (CASE toks[p].k = "OpenParen" -> 1
                                      [] toks[p].k = "CloseParen" -> -1
                                      [] OTHER -> 0)))

\* The token after the opening parenthesis of every form directly inside
\* the define form, in text order.
SectionKeywords(toks) ==
  LET depth == DepthsBefore(toks, <<>>) IN
  LET opens == SelectSeq([p \in 1..Len(toks) |-> p],
                         LAMBDA p : toks[p].k = "OpenParen" /\ depth[p] = 1 /\ p < Len(toks)) IN
  [n \in 1..Len(opens) |-> toks[opens[n] + 1].k]

\* The place of a section in Domain::parse_domain's tuple.
SectionRank(k) ==
  CASE k = "Domain" -> 0
    [] k = "Requirements" -> 1
    [] k = "Types" -> 2
    [] k = "Constants" -> 3
    [] k = "Predicates" -> 4
    [] k = "Functions" -> 5
    [] k \in {"Action", "DurativeAction"} -> 6
    [] OTHER -> 7

\* Name first, then the sections in the order of the tuple, each at most
\* once except the actions, and the predicates among them.
InSectionOrder(ks) ==
  /\ ks # <<>> /\ ks[1] = "Domain"
  /\ \A n \in 1..Len(ks) : SectionRank(ks[n]) < 7
  /\ \A n \in 1..(Len(ks) - 1) :
       \/ SectionRank(ks[n]) < SectionRank(ks[n + 1])
       \/ SectionRank(ks[n]) = 6 /\ SectionRank(ks[n + 1]) = 6
  /\ \E n \in 1..Len(ks) : ks[n] = "Predicates"

HasSection(ks, k) == \E n \in 1..Len(ks) : ks[n] = k

\* C23: Domain::parse succeeds only when the sections after the name come in
\* the order requirements, types, constants, predicates, functions, actions
\* with the predicates block present; an absent requirements, types,
\* constants or functions section gives an empty list, and a domain without
\* actions is accepted with actions = [].
C23_DomainSections ==
  (kind = "domain" /\ pc = "parsed") =>
    LET ks == SectionKeywords(TokenStream_new(input)) IN
    /\ parsed.ok =>
         /\ InSectionOrder(ks)
         /\ ~HasSection(ks, "Requirements") => parsed.val.requirements = <<>>
         /\ ~HasSection(ks, "Types") => parsed.val.types = <<>>
         /\ ~HasSection(ks, "Constants") => parsed.val.constants = <<>>
         /\ ~HasSection(ks, "Functions") => parsed.val.functions = <<>>
         /\ (~HasSection(ks, "Action") /\ ~HasSection(ks, "DurativeAction"))
              => parsed.val.actions = <<>>
    /\ input = <<"(", "define", "(", "domain", "d", ")", "(", ":predicates", ")", ")">>
         => parsed = Done([name |-> "d", requirements |-> <<>>, types |-> <<>>,
                           constants |-> <<>>, predicates |-> <<>>,
                           functions |-> <<>>, actions |-> <<>>])

\* A domain made of its name and an empty predicates block has been accepted
\* with every list empty.
C23_Witness ==
  /\ kind = "domain" /\ pc = "parsed" /\ parsed.ok
  /\ SectionKeywords(TokenStream_new(input)) = <<"Domain", "Predicates">>
  /\ parsed.val.actions = <<>> /\ parsed.val.requirements = <<>>

\* A domain with its types after its predicates has been refused.
C23_DisorderRefused ==
  /\ kind = "domain" /\ pc = "parsed" /\ ~parsed.ok
  /\ SectionKeywords(TokenStream_new(input)) = <<"Domain", "Predicates", "Types">>


(***************************************************************************)
(* C24: either types name at least one type                                *)
(***************************************************************************)

\* The types of a list of typed parameters, constants or objects.
TypesOf(items) == {items[k].type_ : k \in 1..Len(items)}

\* The types of the parameters that forall forms declare in an expression.
RECURSIVE ForallTypes(_)
ForallTypes(e) ==
  CASE e.tag = "Forall" -> TypesOf(e.params) \cup ForallTypes(e.body)
    [] e.tag = "And" -> UNION {ForallTypes(e.exprs[k]) : k \in 1..Len(e.exprs)}
    [] e.tag = "Not" -> ForallTypes(e.e)
    [] e.tag = "Duration" -> ForallTypes(e.body)
    [] e.tag \in {"Atom", "Number"} -> {}
    [] OTHER -> ForallTypes(e.a) \cup ForallTypes(e.b)

ActionTypes(a) ==
  TypesOf(a.parameters) \cup ForallTypes(a.effect)
    \cup (IF a.tag = "Simple"
          THEN (IF a.precondition = <<>> THEN {} ELSE ForallTypes(a.precondition[1]))
          ELSE ForallTypes(a.duration)
                 \cup (IF a.condition = <<>> THEN {} ELSE ForallTypes(a.condition[1])))

\* Every Type held by a Domain.
DomainTypes(d) ==
  TypesOf(d.constants)
    \cup UNION {TypesOf(d.predicates[k].parameters) : k \in 1..Len(d.predicates)}
    \cup UNION {TypesOf(d.functions[k].parameters) : k \in 1..Len(d.functions)}
    \cup UNION {ActionTypes(d.actions[k]) : k \in 1..Len(d.actions)}

\* Every Type held by a Problem.
ProblemTypes(p) ==
  TypesOf(p.objects) \cup ForallTypes(p.goal)
    \cup UNION {ForallTypes(p.init[k]) : k \in 1..Len(p.init)}

NonEmptyEither(ty) == ty.tag = "Either" => ty.names # <<>>

\* The tokens at position i are "( either )".
EmptyEitherAt(toks, i) ==
  /\ i + 2 <= Len(toks)
  /\ <<toks[i].k, toks[i + 1].k, toks[i + 2].k>> = <<"OpenParen", "Either", "CloseParen">>

\* C24: every Type::Either in a value returned by Domain::parse or
\* Problem::parse has at least one name, and "(either)" without a name is
\* rejected as a type.
C24_EitherNonEmpty ==
  /\ (kind = "domain" /\ pc = "parsed" /\ parsed.ok) =>
       \A ty \in DomainTypes(parsed.val) : NonEmptyEither(ty)
  /\ (kind = "problem" /\ pc = "parsed" /\ parsed.ok) =>
       \A ty \in ProblemTypes(parsed.val) : NonEmptyEither(ty)
  /\ (kind \in {"domain", "problem", "typed_parameters", "objects"} /\ pc = "parsed") =>
       LET toks == InputTokens IN
       /\ (kind \in {"domain", "problem"} /\ \E i \in 1..Len(toks) : EmptyEitherAt(toks, i))
            => ~parsed.ok
       /\ kind \in {"typed_parameters", "objects"} =>
            \A i \in 1..Len(toks) :
              LET r == Type_parse_type(toks, i) IN
              /\ r.ok => NonEmptyEither(r.val)
              /\ EmptyEitherAt(toks, i) => ~r.ok

\* A domain with "(either)" as a parameter type has been refused.
C24_Witness ==
  /\ kind = "domain" /\ pc = "parsed" /\ ~parsed.ok
  /\ \E i \in 1..Len(InputTokens) : EmptyEitherAt(InputTokens, i)

\* A problem with an object of an either type of two names has been accepted.
C24_EitherAccepted ==
  /\ kind = "problem" /\ pc = "parsed" /\ parsed.ok
  /\ \E ty \in ProblemTypes(parsed.val) : ty.tag = "Either" /\ Len(ty.names) = 2


(***************************************************************************)
(* C25: termination                                                        *)
(***************************************************************************)

\* A successful attempt at cursor i has moved the cursor forward.
Advances(r, i) == r.ok => r.i > i

\* The parsers that many0 and many1 repeat, and parse_expression, which
\* calls itself: wherever one of them succeeds it has consumed a token.
AttemptsAdvance ==
  pc = "parsed" =>
    LET toks == InputTokens IN
    \A i \in 1..(Len(toks) + 1) :
      /\ kind \in {"plan", "plan_items"} =>
           /\ Advances(durative_item(toks, i), i)
           /\ Advances(simple_item(toks, i), i)
           /\ Advances(id_or_var(toks, i), i)
      /\ kind \in {"expression", "and_items"} =>
           /\ Advances(Expression_parse_expression(toks, i), i)
           /\ Advances(id_or_var(toks, i), i)
           /\ Advances(typed_parameters_group(toks, i), i)
      /\ kind = "typed_parameters" =>
           Advances(typed_parameters_group(toks, i), i) /\ Advances(var(toks, i), i)
      /\ kind = "types" => Advances(types_group(toks, i), i) /\ Advances(id(toks, i), i)
      /\ kind \in {"objects", "problem"} => Advances(objects_group(toks, i), i)
      /\ kind = "domain" =>
           /\ Advances(types_group(toks, i), i)
           /\ Advances(constants_group(toks, i), i)
           /\ Advances(typed_predicate(toks, i), i)
           /\ Advances(SimpleAction_parse(toks, i), i)
           /\ Advances(DurativeAction_parse(toks, i), i)

\* A call that has returned has returned Ok or Err, and a repetition run
\* attempt by attempt returns what the parser it belongs to returns.
ReturnsResult ==
  pc = "parsed" =>
    /\ parsed # NotRun
    /\ kind = "plan_items" => parsed = Plan_parse(input)
    /\ kind = "and_items" => parsed = Expression_parse_and(InputTokens, 1)

\* Every attempt that keeps a repetition going has moved its cursor forward.
LoopProgress ==
  (pc \in {"looping", "retrying"} /\ pc' = pc) => parsed'.i > parsed.i

\* C25: for every input text Domain::parse, Problem::parse and Plan::parse
\* finish with Ok or Err; every successful attempt inside a many0 or many1
\* repetition and every recursive call of parse_expression strictly advances
\* the cursor, so that no repetition or recursion goes on without consuming
\* input.
C25_Termination ==
  /\ []AttemptsAdvance
  /\ []ReturnsResult
  /\ [][LoopProgress]_vars
  /\ (kind # "cursor" /\ pc \in {"start", "looping", "retrying"}) ~> (pc = "parsed")

\* The repetition of Plan::parse has made two successful attempts and a
\* failing one, and the plan has been returned.
C25_Witness ==
  /\ kind = "plan_items" /\ pc = "parsed"
  /\ parsed.ok /\ Len(parsed.val) = 2

\* The repetition of parse_and has ended after a successful attempt.
C25_AndLoopEnded ==
  /\ kind = "and_items" /\ pc = "parsed"
  /\ parsed.ok /\ Len(parsed.val.exprs) >= 1


(***************************************************************************)
(* C26: the alternatives of parse_expression exclude one another           *)
(***************************************************************************)

\* The place, in ExpressionBranches, of the alternative that the token
\* after the opening parenthesis selects; 0 when it selects none.
BranchOfToken(k) ==
  CASE k = "And" -> 1
    [] k = "Not" -> 2
    [] k = "Id" -> 3
    [] k = "Assign" -> 4
    [] k = "ScaleUp" -> 5
    [] k = "ScaleDown" -> 6
    [] k = "Increase" -> 7
    [] k = "Decrease" -> 8
    [] k \in {"At", "Over"} -> 9
    [] k = "Forall" -> 10
    [] k \in {"Plus", "Dash", "Times", "Divide", "Equal"} -> 11
    [] OTHER -> 0

\* At cursor i at most one alternative succeeds, the one that the second
\* token selects, and parse_expression returns what it returns.
ExclusiveAt(toks, i) ==
  LET bs == ExpressionBranches(toks, i) IN
  LET oks == {k \in 1..Len(bs) : bs[k].ok} IN
  /\ Cardinality(oks) <= 1
  /\ \A k \in oks :
       /\ i + 1 <= Len(toks) /\ k = BranchOfToken(toks[i + 1].k)
       /\ Expression_parse_expression(toks, i) = bs[k]
  /\ oks = {} => ~Expression_parse_expression(toks, i).ok

\* C26: on any token sequence at most one of the alternatives and, not,
\* atom, assign, scale-up, scale-down, increase, decrease, duration, forall
\* and comparison succeeds, told apart by the token after the opening
\* parenthesis, so that the value of a successful parse does not depend on
\* the order in which they are listed.
C26_ExclusiveAlternatives ==
  (kind = "expression" /\ pc = "parsed") =>
    LET toks == InputTokens IN
    \A i \in 1..(Len(toks) + 1) : ExclusiveAt(toks, i)

\* An expression has been parsed by its last alternative, the comparison,
\* and by no other.
C26_Witness ==
  /\ kind = "expression" /\ pc = "parsed" /\ parsed.ok
  /\ parsed.val.tag = "BinaryOp"
  /\ {k \in 1..11 : ExpressionBranches(InputTokens, 1)[k].ok} = {11}


(***************************************************************************)
(* C27: keywords are not identifiers                                       *)
(***************************************************************************)

\* Words spelled like a keyword token, in several letter cases.
KeywordSpellings ==
  {"at", "AT", "end", "End", "start", "all", "over", "domain", "problem", "and", "not"}

\* A word that starts with a keyword and goes on.
LongerWord == "at-robot"

\* The places of a text where an identifier stands.
IdPositions(ws) == {p \in 1..Len(ws) : Token(ws[p]).k = "Id"}

\* The text with the word at place p replaced by w.
Subst(ws, p, w) == [ws EXCEPT ![p] = w]

\* What the parser of the current kind of text returns for the words ws.
ParseAs(ws) ==
  CASE kind = "domain" -> Domain_parse(ws)
    [] kind = "plan" -> Plan_parse(ws)
    [] kind = "flat_plan" -> Flat_Plan_parse(ws)
    [] kind = "expression" -> Expression_parse_expression(TokenStream_new(ws), 1)
    [] kind = "objects" -> Problem_parse_objects(TokenStream_new(ws), 1)
    [] OTHER -> Type_parse_types(TokenStream_new(ws), 1)

\* The names and arguments an expression holds.
RECURSIVE ExpressionIdentifiers(_)
ExpressionIdentifiers(e) ==
  CASE e.tag = "Atom" -> {e.name} \cup {e.parameters[k] : k \in 1..Len(e.parameters)}
    [] e.tag = "And" -> UNION {ExpressionIdentifiers(e.exprs[k]) : k \in 1..Len(e.exprs)}
    [] e.tag = "Not" -> ExpressionIdentifiers(e.e)
    [] e.tag = "Forall" ->
         {e.params[k].name : k \in 1..Len(e.params)}
           \cup UNION {{e.params[k].type_.names[n] : n \in 1..Len(e.params[k].type_.names)} :
                         k \in 1..Len(e.params)}
           \cup ExpressionIdentifiers(e.body)
    [] e.tag = "Duration" -> ExpressionIdentifiers(e.body)
    [] e.tag = "Number" -> {}
    [] OTHER -> ExpressionIdentifiers(e.a) \cup ExpressionIdentifiers(e.b)

\* The expressions of a parsed action.
ActionExpressions(a) ==
  {a.effect}
    \cup (IF a.tag = "Simple"
          THEN (IF a.precondition = <<>> THEN {} ELSE {a.precondition[1]})
          ELSE {a.duration} \cup (IF a.condition = <<>> THEN {} ELSE {a.condition[1]}))

\* A domain with the expressions of its actions left out.
WithoutExpressions(d) ==
  [d EXCEPT !.actions =
     [k \in 1..Len(d.actions) |->
        [tag |-> d.actions[k].tag, name |-> d.actions[k].name,
         parameters |-> d.actions[k].parameters]]]

\* The word w put in place of the identifier at place p has not been taken
\* for an identifier: the text is refused, or w opens a form of an
\* expression as the keyword it is and no name or argument of the value
\* returned is spelled w.
NotAnIdentifier(p, w) ==
  LET r == ParseAs(Subst(input, p, w)) IN
  r.ok =>
    /\ kind \in {"expression", "domain"}
    /\ p > 1 /\ input[p - 1] = "("
    /\ kind = "expression" => w \notin ExpressionIdentifiers(r.val)
    /\ kind = "domain" =>
         /\ WithoutExpressions(r.val) = WithoutExpressions(parsed.val)
         /\ \A k \in 1..Len(r.val.actions) :
              \A e \in ActionExpressions(r.val.actions[k]) :
                w \notin ExpressionIdentifiers(e)

\* The texts in which identifiers are replaced: a domain with every section
\* and each kind of action, the expressions of one level, the plans of one
\* line, and the object and type lists of one group.
ReplacementTexts ==
  CASE kind = "domain" ->
         {<<"(", "define", "(", "domain", "d", ")",
            "(", ":types", "a", "b", "-", "t", "u", ")",
            "(", ":constants", "k", "-", "t", ")",
            "(", ":predicates", "(", "p", "?x", "-", "t", ")", "(", "q", ")", ")",
            "(", ":functions", "(", "f", "?x", ")", ")">> \o a \o <<")">> :
            a \in ActionsTexts}
    [] kind \in {"plan", "flat_plan"} -> PlanLines
    [] kind = "expression" -> ExprTexts(1)
    [] kind = "objects" ->
         {<<"(", ":objects">> \o g \o <<")">> : g \in Groups("a", "b", TypeSuffixes)}
    [] kind = "types" ->
         {<<"(", ":types">> \o g \o <<")">> :
            g \in Groups("a", "b", {<<>>, <<"-", "t">>, <<"-", "object">>})}
    [] OTHER -> {}

C27_DomainTried ==
  /\ kind = "domain" /\ pc = "parsed" /\ parsed.ok
  /\ input \in ReplacementTexts /\ Len(parsed.val.actions) = 2

C27_LongerWordAccepted ==
  /\ kind = "expression" /\ pc = "parsed" /\ parsed.ok
  /\ parsed.val = Atom("at-robot", <<"a", "?x">>)


(***************************************************************************)
(* C28: the cursor of a token stream                                       *)
(***************************************************************************)

\* len() of the stream held in a parsed value r.
LenOf(r) == TokenStream_len(input, InputTokens, r.i, r.val)

\* is_empty() is true exactly when peek() is None.
EmptyIffNoPeek ==
  (kind = "cursor" /\ pc = "stream") =>
    (TokenStream_is_empty(InputTokens, parsed.i)
       <=> TokenStream_peek(InputTokens, parsed.i) = <<>>)

\* One step on a stream: len() does not grow, an advance() made while
\* peek() is Some makes it smaller, an empty stream stays empty, and the
\* methods that only look leave the cursor where it is.
CursorStep ==
  (kind = "cursor" /\ pc = "stream" /\ pc' = "stream") =>
    LET toks == InputTokens IN
    /\ LenOf(parsed') <= LenOf(parsed)
    /\ (parsed'.val = parsed.val + 1 /\ TokenStream_peek(toks, parsed.i) # <<>>)
         => LenOf(parsed') < LenOf(parsed)
    /\ TokenStream_is_empty(toks, parsed.i) => TokenStream_is_empty(toks, parsed'.i)
    /\ parsed'.val = parsed.val => parsed'.i = parsed.i

\* C28: along any sequence of advance() calls from TokenStream::new(text),
\* len() never increases and strictly decreases on every advance made while
\* peek() is Some; is_empty() is true exactly when peek() is None and, once
\* true, stays true after any further advance(); peek(), peek_n(), len(),
\* is_empty() and span() leave the cursor position unchanged.
C28_CursorProgress == []EmptyIffNoPeek /\ [][CursorStep]_vars

\* A stream has been advanced past its last token and looked at: it is
\* empty, len() is 0 and the text ends with a skipped comment.
C28_Witness ==
  /\ kind = "cursor" /\ pc = "stream"
  /\ Len(InputTokens) = 3 /\ Len(input) = 4
  /\ parsed.val > Len(InputTokens)
  /\ text # <<>> /\ text[1] = <<>> /\ text[3] = 0 /\ text[4]


(***************************************************************************)
(* C29: errors inside optional blocks                                      *)
(***************************************************************************)

\* The places of the opening parentheses of the forms directly inside the
\* define form, in text order.
SectionOpens(toks) ==
  LET depth == DepthsBefore(toks, <<>>) IN
  SelectSeq([p \in 1..Len(toks) |-> p],
            LAMBDA p : toks[p].k = "OpenParen" /\ depth[p] = 1 /\ p < Len(toks))

\* What the parser of a section returns when started at the opening
\* parenthesis o of the section.
SectionResult(toks, o) ==
  LET k == toks[o + 1].k IN
  CASE k = "Domain" -> Domain_parse_name(toks, o)
    [] k = "Requirements" -> requirements_block(toks, o)
    [] k = "Types" -> Type_parse_types(toks, o)
    [] k = "Constants" -> Constant_parse_constants(toks, o)
    [] k = "Predicates" -> TypedPredicate_parse_predicates(toks, o)
    [] k = "Functions" -> functions_block(toks, o)
    [] OTHER -> Fail(ExpectedEndOfInput)

\* The section at o is well formed, and a requirements block names
\* supported requirements only.
SectionAccepted(toks, o) ==
  LET r == SectionResult(toks, o) IN
  /\ r.ok
  /\ toks[o + 1].k = "Requirements" => FirstUnsupported(r.val) = <<>>

\* Section k is an optional block that opens as it should and fails inside,
\* and Domain::parse_domain gets to it: the text opens with "( define", and
\* the sections before it are well formed, in the order of the tuple, one
\* right after the other.
MalformedOptionalBlock(toks, opens, k) ==
  /\ Len(toks) >= 2 /\ toks[1].k = "OpenParen" /\ toks[2].k = "Define"
  /\ k >= 2 /\ k <= Len(opens) /\ opens[1] = 3
  /\ toks[opens[k] + 1].k \in {"Requirements", "Types", "Constants", "Functions"}
  /\ ~SectionResult(toks, opens[k]).ok
  /\ \A j \in 1..(k - 1) :
       /\ SectionAccepted(toks, opens[j])
       /\ SectionResult(toks, opens[j]).i = opens[j + 1]
       /\ SectionRank(toks[opens[j] + 1].k) < SectionRank(toks[opens[j + 1] + 1].k)

\* The error of the mandatory element that fails at the opening of block k:
\* the predicates keyword when no predicates block came before, the closing
\* parenthesis of the define form otherwise.
MaskingError(toks, opens, k) ==
  IF \E j \in 1..(k - 1) : toks[opens[j] + 1].k = "Predicates"
  THEN ExpectedToken("CloseParen", toks, opens[k])
  ELSE ExpectedToken("Predicates", toks, opens[k] + 1)

\* C29: when a requirements, types, constants or functions block of a domain
\* opens as it should and is malformed inside, the block counts as absent
\* and Domain::parse reports the failure of a later mandatory element at the
\* opening of the block (ExpectedToken for :predicates or for the closing
\* parenthesis), never the error of the malformed element.
C29_MaskedErrors ==
  (kind = "domain" /\ pc = "parsed") =>
    LET toks == InputTokens IN
    LET opens == SectionOpens(toks) IN
    \A k \in 1..Len(opens) :
      MalformedOptionalBlock(toks, opens, k) =>
        /\ parsed = Fail(MaskingError(toks, opens, k))
        /\ parsed.err # SectionResult(toks, opens[k]).err

\* A domain whose constants lack their type has been refused with the
\* predicates keyword expected where the constants block opens.
C29_Witness ==
  /\ kind = "domain" /\ pc = "parsed"
  /\ MalformedOptionalBlock(InputTokens, SectionOpens(InputTokens), 3)
  /\ InputTokens[SectionOpens(InputTokens)[3] + 1].k = "Constants"
  /\ ~parsed.ok /\ parsed.err.arg = "Predicates"
  /\ parsed.err.at = SectionOpens(InputTokens)[3] + 1

\* A domain whose functions block is malformed has been refused with the
\* closing parenthesis expected where the block opens.
C29_FunctionsMasked ==
  /\ kind = "domain" /\ pc = "parsed"
  /\ \E k \in 1..Len(SectionOpens(InputTokens)) :
       /\ MalformedOptionalBlock(InputTokens, SectionOpens(InputTokens), k)
       /\ InputTokens[SectionOpens(InputTokens)[k] + 1].k = "Functions"
       /\ parsed = Fail(ExpectedToken("CloseParen", InputTokens, SectionOpens(InputTokens)[k]))


\* A requirements block, malformed inside, has been masked.
C29_RequirementsMasked ==
  /\ kind = "domain" /\ pc = "parsed"
  /\ MalformedOptionalBlock(InputTokens, SectionOpens(InputTokens), 2)
  /\ InputTokens[SectionOpens(InputTokens)[2] + 1].k = "Requirements"
  /\ parsed = Fail(ExpectedToken("Predicates", InputTokens, SectionOpens(InputTokens)[2] + 1))


(***************************************************************************)
(* C30: the types list and its printed form                                *)
(***************************************************************************)

\* The TypeDefs without a parent are the last ones of the list.
ParentlessSuffix(types) ==
  \A a, b \in 1..Len(types) :
    (a < b /\ types[a].parent = <<>>) => types[b].parent = <<>>

\* The types block as Domain::to_pddl prints it, one TypeDef per line, read
\* again by Type::parse_types.
ReparsedTypes(types) ==
  Type_parse_types(TokenStream_new(Block(":types", TypeDef_to_pddl, types)), 1)

\* The types list of the value parsed: of a types block, or of a domain.
ParsedTypes ==
  IF kind = "types" THEN parsed.val ELSE parsed.val.types

\* C30: in every types list returned by Type::parse_types the TypeDefs
\* without a parent form a suffix of the list, and the list printed one
\* TypeDef per line and parsed again gives every name the same parent as
\* before.
C30_ParentlessSuffix ==
  (kind \in {"types", "domain"} /\ pc = "parsed" /\ parsed.ok) =>
    /\ ParentlessSuffix(ParsedTypes)
    /\ ParsedTypes # <<>> =>
         /\ ReparsedTypes(ParsedTypes).ok
         /\ ReparsedTypes(ParsedTypes).val = ParsedTypes

\* A types block of several groups, the last one without a parent, has been
\* parsed: names with a parent come before names without.
C30_Witness ==
  /\ kind = "types" /\ pc = "parsed" /\ parsed.ok
  /\ Len(parsed.val) >= 3
  /\ parsed.val[1].parent # <<>>
  /\ parsed.val[Len(parsed.val) - 1].parent = <<>>
  /\ parsed.val[Len(parsed.val)].parent = <<>>
  /\ ReparsedTypes(parsed.val).val = parsed.val

====
